---- MODULE Spec2Model ----
(***************************************************************************)
(* Camp ranking core of brcDomesday (recommendations/rank_camps.py and its *)
(* callers).  CampRanker holds the Feature Store (self.camps) and the      *)
(* lazily loaded sentence-transformer (self.model); rank() blends          *)
(* embedding similarity, axis match and geographic bonus, sorts with       *)
(* np.argsort and builds explained results.                                *)
(*                                                                         *)
(* Numbers: Python floats are modelled as exact rationals <<num, den>>     *)
(* in lowest terms with den > 0; the IEEE NaN (np.mean of an empty list,   *)
(* 0/0) is <<0, 0>> and propagates through + and *, and every ordered      *)
(* comparison with it is false.  Optional values: None is <<>>, a present  *)
(* value v is <<v>>.  Python strings whose characters matter (hometowns)   *)
(* are sequences of one-character strings.                                 *)
(*                                                                         *)
(* The offline pipeline that produces the Feature Store is modelled next   *)
(* to the ranker: shape_data.py (roster and history to shaped camps),      *)
(* generate_features.py (keyword axes, two passes) and                     *)
(* generate_personality_features.py.  Its state is the loaded inputs, the  *)
(* outcome of every shaping run, the axis definitions and what the two     *)
(* scorers computed; stage is the position in the pipeline.                *)
(***************************************************************************)
EXTENDS Integers, Sequences, FiniteSets, TLC

VARIABLES camps, model, pc, request, call, ranked_indices, results,
          data_files, roster, history, shape_runs,
          feature_axes, all_scores, percentiles, features_data,
          personality_features, stage, threads

ranker_vars == <<camps, model, pc, request, call, ranked_indices, results>>

pipeline_vars == <<data_files, roster, history, shape_runs, feature_axes, all_scores,
                   percentiles, features_data, personality_features, stage>>

\* threads: the rank() calls in flight on one CampRanker when the web app
\* serves requests on several threads; <<>> where one caller at a time runs.
vars == <<ranker_vars, pipeline_vars, threads>>

\* The pipeline has not been started (the ranker runs on a store built earlier).
PipelineOff ==
    /\ data_files = <<>>
    /\ roster = <<>>
    /\ history = <<>>
    /\ shape_runs = <<>>
    /\ feature_axes = <<>>
    /\ all_scores = <<>>
    /\ percentiles = <<>>
    /\ features_data = <<>>
    /\ personality_features = <<>>
    /\ stage = "off"

(***************************************************************************)
(* Bounds of the model.                                                    *)
(***************************************************************************)
MaxCamps == 2

MaxTopK == 2

(***************************************************************************)
(* Optional values.                                                        *)
(***************************************************************************)
None == <<>>

Some(v) == <<v>>

\* The element of a one-element set.  Only({F(x) : x \in {e}}) is F at the
\* value of e: e is evaluated once, as an argument or a local is in Python.
Only(S) == CHOOSE x \in S : TRUE

(***************************************************************************)
(* Exact rationals with NaN.                                               *)
(***************************************************************************)
Abs(x) == IF x < 0 THEN -x ELSE x

Min(a, b) == IF a <= b THEN a ELSE b

RECURSIVE GCD(_, _)
GCD(a, b) == IF b = 0 THEN a ELSE GCD(b, a % b)

NaN == <<0, 0>>

IsNaN(r) == r[2] = 0

Rat(n, d) ==
    IF d = 0 THEN NaN
    ELSE LET g == GCD(Abs(n), Abs(d))
             s == IF d < 0 THEN -1 ELSE 1
         IN  <<(s * n) \div g, (s * d) \div g>>

FromInt(n) == <<n, 1>>

RAdd(a, b) == IF IsNaN(a) \/ IsNaN(b) THEN NaN
              ELSE Rat(a[1] * b[2] + b[1] * a[2], a[2] * b[2])

RMul(a, b) == IF IsNaN(a) \/ IsNaN(b) THEN NaN
              ELSE Rat(a[1] * b[1], a[2] * b[2])

RLess(a, b) == ~IsNaN(a) /\ ~IsNaN(b) /\ a[1] * b[2] < b[1] * a[2]

RGeq(a, b) == ~IsNaN(a) /\ ~IsNaN(b) /\ a[1] * b[2] >= b[1] * a[2]

RLeq(a, b) == RGeq(b, a)

RECURSIVE SumSeq(_)
SumSeq(s) == IF s = <<>> THEN 0 ELSE Head(s) + SumSeq(Tail(s))

\* np.mean over a Python list of numbers: sum / len, and nan for the empty list.
NpMean(s) == Rat(SumSeq(s), Len(s))

(***************************************************************************)
(* Python str operations.                                                  *)
(***************************************************************************)
\* A Python string literal, as the sequence of its characters.
Str(s) == [i \in 1..Len(s) |-> SubSeq(s, i, i)]

UpperCase == Str("ABCDEFGHIJKLMNOPQRSTUVWXYZ")

LowerCase == Str("abcdefghijklmnopqrstuvwxyz")

UpperToLower ==
    [c \in {UpperCase[i] : i \in 1..Len(UpperCase)} |->
        LowerCase[CHOOSE i \in 1..Len(UpperCase) : UpperCase[i] = c]]

LowerChar(c) == IF c \in DOMAIN UpperToLower THEN UpperToLower[c] ELSE c

StrLower(s) == [i \in 1..Len(s) |-> LowerChar(s[i])]

IsSpace(c) == c \in {" ", "\n", "\t"}

RECURSIVE LStrip(_)
LStrip(s) == IF s # <<>> /\ IsSpace(Head(s)) THEN LStrip(Tail(s)) ELSE s

RECURSIVE RStrip(_)
RStrip(s) == IF s # <<>> /\ IsSpace(s[Len(s)])
             THEN RStrip(SubSeq(s, 1, Len(s) - 1)) ELSE s

StrStrip(s) == Only({RStrip(left) : left \in {LStrip(s)}})

\* Python's `needle in hay` for strings.
StrIn(needle, hay) ==
    \E i \in 1..(Len(hay) - Len(needle) + 1) :
        SubSeq(hay, i, i + Len(needle) - 1) = needle

(***************************************************************************)
(* Python text operations of the pipeline (re and str), on strings as      *)
(* sequences of one-character strings.                                     *)
(***************************************************************************)
Digits == Str("0123456789")

IsDigit(c) == \E i \in 1..Len(Digits) : Digits[i] = c

\* \w of re: letters, digits and the underscore.
IsWordChar(c) ==
    \/ c \in DOMAIN UpperToLower
    \/ \E u \in DOMAIN UpperToLower : UpperToLower[u] = c
    \/ IsDigit(c)
    \/ c = "_"

\* str(n) for n >= 0.
RECURSIVE IntToStr(_)
IntToStr(n) ==
    IF n < 10 THEN <<Digits[n + 1]>>
    ELSE IntToStr(n \div 10) \o <<Digits[(n % 10) + 1]>>

\* sep.join(parts).
RECURSIVE StrJoin(_, _)
StrJoin(sep, parts) ==
    IF parts = <<>> THEN <<>>
    ELSE IF Len(parts) = 1 THEN parts[1]
    ELSE parts[1] \o sep \o StrJoin(sep, Tail(parts))

\* s.startswith(prefix), on the lowered text when the match ignores case.
StartsWith(s, prefix) ==
    Len(prefix) <= Len(s) /\ SubSeq(s, 1, Len(prefix)) = prefix

\* re.sub(r'\s+', ' ', text).
RECURSIVE CollapseWhitespace(_)
CollapseWhitespace(text) ==
    IF text = <<>> THEN <<>>
    ELSE IF IsSpace(Head(text)) THEN <<" ">> \o CollapseWhitespace(LStrip(text))
    ELSE <<Head(text)>> \o CollapseWhitespace(Tail(text))

\* The strings a pattern of literal segments with alternatives matches.
RECURSIVE Expand(_)
Expand(segments) ==
    IF segments = <<>> THEN {<<>>}
    ELSE {a \o rest : a \in Head(segments), rest \in Expand(Tail(segments))}

\* boilerplate_patterns of clean_text, in order; clock marks a trailing \d+:\d+.
boilerplate_patterns ==
    << [literals |-> Expand(<< {Str("see ")}, {Str("the "), <<>>}, {Str("playa events ")},
                               {Str("app"), Str("guide")} >>),
        clock |-> FALSE],
       [literals |-> Expand(<< {Str("check ")}, {Str("the "), <<>>}, {Str("playa events ")},
                               {Str("app"), Str("guide")} >>),
        clock |-> FALSE],
       [literals |-> Expand(<< {Str("visit our camp for more info")},
                               {Str("rmation"), <<>>} >>),
        clock |-> FALSE],
       [literals |-> Expand(<< {Str("come ")}, {Str("visit"), Str("see")},
                               {Str(" us at our camp")} >>),
        clock |-> FALSE],
       [literals |-> {Str("located at ")}, clock |-> TRUE] >>

\* Length of the leading run of digits (\d+ is greedy and a digit is no colon).
RECURSIVE DigitRun(_)
DigitRun(text) ==
    IF text # <<>> /\ IsDigit(Head(text)) THEN 1 + DigitRun(Tail(text)) ELSE 0

\* Length of the match of \d+:\d+ at the start of text, 0 for no match.
ClockMatchLen(text) ==
    LET h == DigitRun(text)
        rest == SubSeq(text, h + 2, Len(text))
        m == DigitRun(rest)
    IN  IF h > 0 /\ Len(text) > h /\ text[h + 1] = ":" /\ m > 0 THEN h + 1 + m ELSE 0

\* Length of the match of a pattern at the start of text (re.IGNORECASE), 0 for
\* no match; an optional group is greedy, so the longest alternative wins.
MatchLen(pattern, text) ==
    LET lowered == StrLower(text)
        lens == {IF pattern.clock
                 THEN (IF ClockMatchLen(SubSeq(text, Len(l) + 1, Len(text))) > 0
                       THEN Len(l) + ClockMatchLen(SubSeq(text, Len(l) + 1, Len(text)))
                       ELSE 0)
                 ELSE Len(l) :
                 l \in {x \in pattern.literals : StartsWith(lowered, x)}}
    IN  IF lens = {} THEN 0 ELSE CHOOSE n \in lens : \A k \in lens : k <= n

\* re.sub(pattern, '', text, flags=re.IGNORECASE): leftmost matches, left to right.
RECURSIVE ReSubRemove(_, _)
ReSubRemove(pattern, text) ==
    IF text = <<>> THEN <<>>
    ELSE LET n == MatchLen(pattern, text)
         IN  IF n > 0 THEN ReSubRemove(pattern, SubSeq(text, n + 1, Len(text)))
             ELSE <<Head(text)>> \o ReSubRemove(pattern, Tail(text))

\* The for loop of clean_text over boilerplate_patterns[k..].
RECURSIVE RemoveBoilerplate(_, _)
RemoveBoilerplate(text, k) ==
    IF k > Len(boilerplate_patterns) THEN text
    ELSE RemoveBoilerplate(ReSubRemove(boilerplate_patterns[k], text), k + 1)

\* clean_text(text); text is None or Some(string).
CleanText(text) ==
    IF text = None \/ text = Some(<<>>) THEN <<>>
    ELSE Only({StrStrip(collapsed) :
                 collapsed \in {CollapseWhitespace(removed) :
                     removed \in {RemoveBoilerplate(stripped, 1) :
                         stripped \in {StrStrip(normalized) :
                             normalized \in {CollapseWhitespace(text[1])}}}}})

(***************************************************************************)
(* CampRanker: the three component scores.  Each returns one value per     *)
(* camp of the store, in store order (a numpy array in the source).        *)
(***************************************************************************)
UnitVectors == {<<1, 0>>, <<0, 1>>, <<-1, 0>>}

Dot(u, v) == u[1] * v[1] + u[2] * v[2]

\* Variant with 0 as the value for a profile without description; C5 rejects it.
ComputeEmbeddingSimilarityMutNeutralZero(store, user_embedding) ==
    IF user_embedding = None
    THEN [i \in 1..Len(store) |-> FromInt(0)]
    ELSE [i \in 1..Len(store) |-> FromInt(Dot(store[i].embedding, user_embedding[1]))]

\* _compute_embedding_similarity once the description (if any) is encoded:
\* user_embedding is None when the profile has no description.
ComputeEmbeddingSimilarity(store, user_embedding) ==
    IF user_embedding = None
    THEN [i \in 1..Len(store) |-> Rat(1, 2)]
    ELSE [i \in 1..Len(store) |-> FromInt(Dot(store[i].embedding, user_embedding[1]))]

\* Variant that keeps a None preference as the preference 0; C9 rejects it.
UserPreferencesMutNoneAsZero(axes) ==
    [i \in 1..Len(axes) |-> IF axes[i][2] = None THEN <<axes[i][1], Some(0)>> ELSE axes[i]]

\* The dict comprehension {k: v for k, v in axes.items() if v is not None}.
UserPreferences(axes) == SelectSeq(axes, LAMBDA p : p[2] # None)

\* Variant without the cap on over-delivery; C6 rejects it.
AxisMatchMutUncapped(camp_score, user_pref) == 100 + (camp_score - user_pref)

\* Variant with the symmetric distance of the alternate rankers; C7 rejects it.
AxisMatchMutSymmetric(camp_score, user_pref) == 100 - Abs(user_pref - camp_score)

\* The body of the inner loop: the per-axis match.
AxisMatch(camp_score, user_pref) ==
    IF camp_score >= user_pref
    THEN 100 + Min(camp_score - user_pref, 10)
    ELSE 100 - (user_pref - camp_score)

\* axis_distances of one camp: preferences whose axis the camp lacks are skipped.
AxisDistances(camp, user_preferences) ==
    LET present == SelectSeq(user_preferences, LAMBDA p : p[1] \in DOMAIN camp.axes)
    IN  [i \in 1..Len(present) |-> AxisMatch(camp.axes[present[i][1]], present[i][2][1])]

ComputeAxisMatchScore(store, profile) ==
    LET user_preferences == UserPreferences(profile.axes)
    IN  IF user_preferences = <<>>
        THEN [i \in 1..Len(store) |-> FromInt(50)]
        ELSE [i \in 1..Len(store) |-> NpMean(AxisDistances(store[i], user_preferences))]

\* Variant that compares the raw strings; C10 rejects it.
GeographicBonusMutNoNormalize(user_hometown, camp_hometown) ==
    IF camp_hometown = user_hometown THEN 10
    ELSE IF StrIn(user_hometown, camp_hometown) \/ StrIn(camp_hometown, user_hometown)
         THEN 5 ELSE 0

\* One iteration of the loop of _compute_geographic_bonus, on the raw strings.
GeographicBonus(profile_hometown, stored_hometown) ==
    LET user_hometown == StrStrip(StrLower(profile_hometown))
        camp_hometown == StrStrip(StrLower(stored_hometown))
    IN  IF camp_hometown = user_hometown THEN 10
        ELSE IF StrIn(user_hometown, camp_hometown) \/ StrIn(camp_hometown, user_hometown)
             THEN 5 ELSE 0

ComputeGeographicBonus(store, profile) ==
    IF profile.hometown = None
    THEN [i \in 1..Len(store) |-> FromInt(0)]
    ELSE [i \in 1..Len(store) |->
             FromInt(GeographicBonus(profile.hometown[1], store[i].hometown))]

\* Variant that adds the bonus unweighted; C4 rejects it.
FinalScoreMutGeoUnweighted(w, emb100, axis, geo) ==
    RAdd(RAdd(RMul(w.embedding, emb100), RMul(w.axis, axis)), geo)

\* final_scores, element-wise.
FinalScore(w, emb100, axis, geo) ==
    RAdd(RAdd(RMul(w.embedding, emb100), RMul(w.axis, axis)), RMul(w.geographic, geo))

(***************************************************************************)
(* Sorting and slicing.                                                    *)
(***************************************************************************)
IndexPermutations(n) == {p \in [1..n -> 1..n] : \A i, j \in 1..n : p[i] = p[j] => i = j}

\* The order numpy sorts floats in: ascending, every nan after every number.
NpSortsBefore(a, b) == IF IsNaN(b) THEN ~IsNaN(a) ELSE RLess(a, b)

\* np.argsort(a) with the default kind (quicksort, not stable): an ascending
\* permutation; which one, among equal keys, is not specified.
NpArgsort(a) ==
    {p \in IndexPermutations(Len(a)) :
        \A i, j \in 1..Len(a) : i < j => ~NpSortsBefore(a[p[j]], a[p[i]])}

\* seq[::-1]
Reversed(seq) == [i \in 1..Len(seq) |-> seq[Len(seq) + 1 - i]]

\* Variant that keeps one element more; C3 rejects it.
SliceToMutOffByOne(seq, k) == SubSeq(seq, 1, Min(k + 1, Len(seq)))

\* seq[:k]
SliceTo(seq, k) ==
    IF k >= 0 THEN SubSeq(seq, 1, Min(k, Len(seq)))
    ELSE SubSeq(seq, 1, Len(seq) + k)

\* ranked_indices from one outcome p of np.argsort(final_scores).
RankedIndices(p) == Reversed(p)

(***************************************************************************)
(* _generate_explanation.  A note is a record; the joined string is the    *)
(* sequence of its notes.                                                  *)
(***************************************************************************)
\* readable_name(axis_key).lower() for the axis keys of the model.
ReadableNameLower(axis_key) ==
    CASE axis_key = "music_jazz_blues" -> "jazz/blues"
      [] axis_key = "sound_party" -> "sound party"
      [] OTHER -> axis_key

Note(kind, text, place, n) == [kind |-> kind, text |-> text, place |-> place, n |-> n]

\* Variant whose Low label covers every score below 40; C23 rejects it.
AxisNotesMutNoGap(result, axes) ==
    LET set == SelectSeq(axes, LAMBDA p : ~(p[2] = None \/ p[1] \notin DOMAIN result.axes))
        LabelOf(p) ==
            LET camp_score == result.axes[p[1]]
                user_pref == p[2][1]
            IN  IF Abs(user_pref - camp_score) <= 20
                THEN IF camp_score >= 70 THEN <<Note("High", ReadableNameLower(p[1]), <<>>, 0)>>
                     ELSE IF camp_score >= 40
                          THEN <<Note("Medium", ReadableNameLower(p[1]), <<>>, 0)>>
                     ELSE IF camp_score < 40
                          THEN <<Note("Low", ReadableNameLower(p[1]), <<>>, 0)>>
                     ELSE <<>>
                ELSE <<>>
        RECURSIVE Collect(_)
        Collect(k) == IF k > Len(set) THEN <<>> ELSE LabelOf(set[k]) \o Collect(k + 1)
    IN  Collect(1)

\* The axis loop: one label note at most per set axis the camp has.
AxisNotes(result, axes) ==
    LET set == SelectSeq(axes, LAMBDA p : ~(p[2] = None \/ p[1] \notin DOMAIN result.axes))
        LabelOf(p) ==
            LET camp_score == result.axes[p[1]]
                user_pref == p[2][1]
            IN  IF Abs(user_pref - camp_score) <= 20
                THEN IF camp_score >= 70 THEN <<Note("High", ReadableNameLower(p[1]), <<>>, 0)>>
                     ELSE IF camp_score >= 40
                          THEN <<Note("Medium", ReadableNameLower(p[1]), <<>>, 0)>>
                     ELSE IF camp_score <= 20
                          THEN <<Note("Low", ReadableNameLower(p[1]), <<>>, 0)>>
                     ELSE <<>>
                ELSE <<>>
        RECURSIVE Collect(_)
        Collect(k) == IF k > Len(set) THEN <<>> ELSE LabelOf(set[k]) \o Collect(k + 1)
    IN  Collect(1)

\* Variant that returns every note; C24 rejects it.
GenerateExplanationMutUntruncated(result, profile) ==
    LET explanations ==
            AxisNotes(result, profile.axes)
            \o (IF RLess(FromInt(0), result.component_scores.geographic_bonus)
                THEN <<Note("From", "", result.hometown, 0)>> ELSE <<>>)
            \o (IF result.years_active >= 5
                THEN <<Note("years on playa", "", <<>>, result.years_active)>> ELSE <<>>)
            \o (IF result.event_count >= 50
                THEN <<Note("events", "", <<>>, result.event_count)>> ELSE <<>>)
        filled == IF explanations = <<>>
                  THEN <<Note("Good overall match", "", <<>>, 0)>> ELSE explanations
    IN  filled

GenerateExplanation(result, profile) ==
    LET explanations ==
            AxisNotes(result, profile.axes)
            \o (IF RLess(FromInt(0), result.component_scores.geographic_bonus)
                THEN <<Note("From", "", result.hometown, 0)>> ELSE <<>>)
            \o (IF result.years_active >= 5
                THEN <<Note("years on playa", "", <<>>, result.years_active)>> ELSE <<>>)
            \o (IF result.event_count >= 50
                THEN <<Note("events", "", <<>>, result.event_count)>> ELSE <<>>)
        filled == IF explanations = <<>>
                  THEN <<Note("Good overall match", "", <<>>, 0)>> ELSE explanations
    IN  SliceTo(filled, 4)

(***************************************************************************)
(* rank: the result list for one outcome of the sort.                      *)
(***************************************************************************)
DefaultTopK == 50

DefaultWeights == [embedding |-> Rat(3, 10), axis |-> Rat(7, 10), geographic |-> Rat(1, 10)]

FinalScores(store, profile, user_embedding, w) ==
    LET embedding_scores == ComputeEmbeddingSimilarity(store, user_embedding)
        axis_scores == ComputeAxisMatchScore(store, profile)
        geo_bonuses == ComputeGeographicBonus(store, profile)
    IN  [i \in 1..Len(store) |->
            FinalScore(w, RMul(embedding_scores[i], FromInt(100)), axis_scores[i],
                       geo_bonuses[i])]

BuildResults(store, profile, user_embedding, w, top_k, ranked) ==
    LET embedding_scores == ComputeEmbeddingSimilarity(store, user_embedding)
        axis_scores == ComputeAxisMatchScore(store, profile)
        geo_bonuses == ComputeGeographicBonus(store, profile)
        final_scores == FinalScores(store, profile, user_embedding, w)
        top == SliceTo(ranked, top_k)
        Bare(k) ==
            LET camp == store[top[k]]
            IN  [rank |-> k,
                 name |-> camp.name,
                 uid |-> camp.uid,
                 hometown |-> camp.hometown,
                 score |-> final_scores[top[k]],
                 component_scores |->
                     [embedding_similarity |-> RMul(embedding_scores[top[k]], FromInt(100)),
                      axis_match |-> axis_scores[top[k]],
                      geographic_bonus |-> geo_bonuses[top[k]]],
                 axes |-> camp.axes,
                 event_count |-> camp.event_count,
                 years_active |-> camp.years_active,
                 explanation |-> <<>>]
    IN  [k \in 1..Len(top) |->
            LET result == Bare(k)
            IN  [result EXCEPT !.explanation = GenerateExplanation(result, profile)]]

(***************************************************************************)
(* Inputs: the Feature Store contents and the calls the callers make.      *)
(***************************************************************************)
Oakland == <<"O", "a", "k", "l", "a", "n", "d">>

OaklandLower == <<"o", "a", "k", "l", "a", "n", "d">>

OaklandCA == <<"O", "a", "k", "l", "a", "n", "d", ",", " ", "C", "A">>

Berkeley == <<"B", "e", "r", "k", "e", "l", "e", "y">>

OaklandPadded == <<" ", "O", "A", "k", "l", "a", "n", "d", " ">>

EmptyStr == <<>>

Camp(name, hometown, embedding, axes, event_count, years_active) ==
    [name |-> name, hometown |-> hometown, embedding |-> embedding, axes |-> axes,
     event_count |-> event_count, years_active |-> years_active]

\* Rows a camp_features.json can hold (json.load accepts any of them).
CampPool ==
    { Camp("Alpha", OaklandLower, <<1, 0>>,
           [k \in {"music_jazz_blues", "sober"} |->
               IF k = "music_jazz_blues" THEN 100 ELSE 10], 60, 6),
      Camp("Bravo", OaklandCA, <<0, 1>>,
           [k \in {"music_jazz_blues", "sober"} |->
               IF k = "music_jazz_blues" THEN 30 ELSE 100], 0, 1),
      Camp("Charlie", Berkeley, <<1, 0>>,
           [k \in {"music_jazz_blues"} |-> 10], 50, 5),
      Camp("Delta", EmptyStr, <<-1, 0>>,
           [k \in {"music_jazz_blues", "sober"} |->
               IF k = "music_jazz_blues" THEN 60 ELSE 100], 3, 2),
      Camp("Echo", OaklandPadded, <<0, 1>>,
           [k \in {"music_jazz_blues", "sober"} |->
               IF k = "music_jazz_blues" THEN 0 ELSE 50], 120, 9) }

\* The stores: 1..MaxCamps different rows, in any order; uid = position.
Stores ==
    UNION { { [i \in 1..n |->
                 [name |-> f[i].name, uid |-> i, hometown |-> f[i].hometown,
                  embedding |-> f[i].embedding, axes |-> f[i].axes,
                  event_count |-> f[i].event_count, years_active |-> f[i].years_active]] :
              f \in {g \in [1..n -> CampPool] : \A i, j \in 1..n : g[i] = g[j] => i = j} } :
            n \in 1..MaxCamps }

JazzOptions ==
    { <<>>, << <<"music_jazz_blues", None>> >>,
      << <<"music_jazz_blues", Some(50)>> >>, << <<"music_jazz_blues", Some(80)>> >> }

SoberOptions == { <<>>, << <<"sober", Some(90)>> >> }

\* sound_party is a quiz slider and a demo preference, and no axis of the store.
PartyOptions == { <<>>, << <<"sound_party", Some(20)>> >> }

AxisArguments == { j \o s \o u : j \in JazzOptions, s \in SoberOptions, u \in PartyOptions }

Descriptions == { None, Some("breathwork") }

Hometowns == { None, Some(Oakland) }

\* UserProfile.__init__
UserProfile(description, hometown, axes) ==
    [description |-> description, hometown |-> hometown, axes |-> axes]

Profiles ==
    { UserProfile(d, h, a) : d \in Descriptions, h \in Hometowns, a \in AxisArguments }

TopKs == 1..MaxTopK \cup {DefaultTopK}

WeightChoices ==
    { DefaultWeights,
      [embedding |-> Rat(1, 2), axis |-> Rat(1, 2), geographic |-> Rat(1, 1)] }

\* What model.encode can return for a description: some unit vector.
EncodeOutcomes == { <<1, 0>>, <<0, 1>> }

(***************************************************************************)
(* The state machine.                                                      *)
(***************************************************************************)
Init ==
    /\ camps \in Stores
    /\ model = "None"
    /\ pc = "idle"
    /\ request = <<>>
    /\ call = <<>>
    /\ ranked_indices = <<>>
    /\ results = <<>>
    /\ PipelineOff
    /\ threads = <<>>

\* _load_model: after it the model is loaded.
LoadModel(m) == IF m = "None" THEN "SentenceTransformer" ELSE m

\* Mutant: a failed embedder is papered over with the neutral 0.5 vector.
EmbedderRaisesMutNeutralFallback(store, profile, top_k, w) ==
    LET ranked == RankedIndices(CHOOSE p \in NpArgsort(FinalScores(store, profile, None, w)) : TRUE)
    IN  [call |-> [profile |-> profile, top_k |-> top_k, weights |-> w,
                   user_embedding |-> None],
         ranked_indices |-> ranked,
         results |-> BuildResults(store, profile, None, w, top_k, ranked),
         pc |-> "returned"]

\* An exception raised under _compute_embedding_similarity: neither it nor
\* rank() has a try/except, so the exception leaves rank() at once; no query
\* embedding exists, nothing is ranked and nothing is returned.
EmbedderRaises(store, profile, top_k, w) ==
    [call |-> [profile |-> profile, top_k |-> top_k, weights |-> w,
               user_embedding |-> None],
     ranked_indices |-> <<>>,
     results |-> <<>>,
     pc |-> "raised"]

\* CampRanker.rank as called with (profile, top_k, weights); req is the
\* JSON payload when the call comes from the /api/rank route.
RankCall(req, profile, top_k, w) ==
    /\ pc = "idle"
    /\ UNCHANGED <<pipeline_vars, threads>>
    /\ request' = req
    /\ camps' = camps
    /\ \/ /\ profile.description = None
          /\ model' = model
          /\ \E p \in NpArgsort(FinalScores(camps, profile, None, w)) :
                /\ ranked_indices' = RankedIndices(p)
                /\ results' = BuildResults(camps, profile, None, w, top_k, RankedIndices(p))
          /\ call' = [profile |-> profile, top_k |-> top_k, weights |-> w,
                      user_embedding |-> None]
          /\ pc' = "returned"
       \/ /\ profile.description # None
          /\ model' = LoadModel(model)
          /\ \E e \in EncodeOutcomes :
                /\ \E p \in NpArgsort(FinalScores(camps, profile, Some(e), w)) :
                      /\ ranked_indices' = RankedIndices(p)
                      /\ results' =
                            BuildResults(camps, profile, Some(e), w, top_k, RankedIndices(p))
                /\ call' = [profile |-> profile, top_k |-> top_k, weights |-> w,
                            user_embedding |-> Some(e)]
          /\ pc' = "returned"
       \/ \* the import or the constructor of SentenceTransformer raises
          /\ profile.description # None
          /\ model = "None"
          /\ model' = model
          /\ LET out == EmbedderRaises(camps, profile, top_k, w)
             IN  /\ call' = out.call
                 /\ ranked_indices' = out.ranked_indices
                 /\ results' = out.results
                 /\ pc' = out.pc
       \/ \* model.encode raises
          /\ profile.description # None
          /\ model' = LoadModel(model)
          /\ LET out == EmbedderRaises(camps, profile, top_k, w)
             IN  /\ call' = out.call
                 /\ ranked_indices' = out.ranked_indices
                 /\ results' = out.results
                 /\ pc' = out.pc

\* ranker.rank(profile, top_k=..., ...) as the scripts call it.
Rank ==
    \E profile \in Profiles, top_k \in TopKs, w \in WeightChoices :
        RankCall(<<>>, profile, top_k, w)

\* The /api/rank route: null-valued axes are dropped before UserProfile is built.
ApiRank ==
    /\ pc = "idle"
    /\ \E data \in Profiles :
          RankCall(Some(data),
                   UserProfile(data.description, data.hometown,
                               SelectSeq(data.axes, LAMBDA p : p[2] # None)),
                   DefaultTopK, DefaultWeights)

\* The caller has consumed the result (or the exception); the ranker is idle again.
Return ==
    /\ pc \in {"returned", "raised"}
    /\ pc' = "idle"
    /\ request' = <<>>
    /\ call' = <<>>
    /\ ranked_indices' = <<>>
    /\ results' = <<>>
    /\ UNCHANGED <<camps, model>>
    /\ UNCHANGED <<pipeline_vars, threads>>

Next == Rank \/ ApiRank \/ Return

Spec == Init /\ [][Next]_vars

(***************************************************************************)
(* Properties of CampRanker.rank.                                          *)
(***************************************************************************)
Returned == pc = "returned"

\* The camps of the store that the returned list leaves out.
LeftOut == {i \in 1..Len(camps) : \A k \in 1..Len(results) : results[k].uid # i}

\* final_scores of the call in progress, by store position.
CallScores == FinalScores(camps, call.profile, call.user_embedding, call.weights)

NameOrder == <<"Alpha", "Bravo", "Charlie", "Delta", "Echo">>

NameIndex(name) == CHOOSE i \in 1..Len(NameOrder) : NameOrder[i] = name

\* name a sorts strictly before name b (ascending string order)
NameBefore(a, b) == NameIndex(a) < NameIndex(b)

SameScore(a, b) == RGeq(a, b) /\ RGeq(b, a)

\* C1: the returned list is in non-increasing order of final score (each score
\* is >= the next one) and every camp left out scores <= the last returned one.
C1_SortedDescending ==
    Returned =>
        /\ \A k \in 1..(Len(results) - 1) : RGeq(results[k].score, results[k + 1].score)
        /\ \A i \in LeftOut : RLeq(CallScores[i], results[Len(results)].score)

\* C2: two returned camps with identical final scores appear in ascending name
\* order, whatever their positions in the store.
C2_TiesByNameAscending ==
    Returned =>
        \A k, l \in 1..Len(results) :
            (SameScore(results[k].score, results[l].score)
                /\ NameBefore(results[k].name, results[l].name)) => k < l

WeightedSumNum(w, e, a, g) ==
    w.embedding[1] * e[1] * (w.axis[2] * a[2]) * (w.geographic[2] * g[2])
    + w.axis[1] * a[1] * (w.embedding[2] * e[2]) * (w.geographic[2] * g[2])
    + w.geographic[1] * g[1] * (w.embedding[2] * e[2]) * (w.axis[2] * a[2])

WeightedSumDen(w, e, a, g) ==
    (w.embedding[2] * e[2]) * (w.axis[2] * a[2]) * (w.geographic[2] * g[2])

NoAxisPreferences(profile) == \A i \in 1..Len(profile.axes) : profile.axes[i][2] = None

\* C5: with no axis preference and no description every camp's axis_match and
\* embedding_similarity are 50, the score is 50*ew + 50*aw + gw*bonus, and the
\* list is ordered by geographic bonus alone.
C5_NoOpinionNeutrality ==
    (Returned /\ NoAxisPreferences(call.profile) /\ call.profile.description = None) =>
        /\ \A k \in 1..Len(results) :
              LET c == results[k].component_scores
              IN  /\ c.axis_match = <<50, 1>>
                  /\ c.embedding_similarity = <<50, 1>>
                  /\ results[k].score =
                        RAdd(RMul(FromInt(50), RAdd(call.weights.embedding, call.weights.axis)),
                             RMul(call.weights.geographic, c.geographic_bonus))
        /\ RLess(FromInt(0), call.weights.geographic) =>
              \A k, l \in 1..Len(results) :
                  RLess(results[l].component_scores.geographic_bonus,
                        results[k].component_scores.geographic_bonus) => k < l

C5_Witness ==
    /\ Returned
    /\ call.profile.axes = <<>>
    /\ call.profile.description = None
    /\ call.profile.hometown # None
    /\ Len(results) = 2
    /\ results[1].uid = 2
    /\ results[1].component_scores.geographic_bonus = <<10, 1>>
    /\ results[2].component_scores.geographic_bonus = <<0, 1>>

\* The preferences of the call that are set (not None) and whose axis the
\* given camp row has.
SharedPreferences(axes, camp_axes) ==
    SelectSeq(axes, LAMBDA p : p[2] # None /\ p[1] \in DOMAIN camp_axes)

\* The per-axis match as the specification words it.
StatedAxisMatch(camp_score, user_pref) ==
    IF camp_score >= user_pref
    THEN 100 + (IF camp_score - user_pref <= 10 THEN camp_score - user_pref ELSE 10)
    ELSE 100 - (user_pref - camp_score)

RECURSIVE StatedMatchSum(_, _)
StatedMatchSum(shared, camp_axes) ==
    IF shared = <<>> THEN 0
    ELSE StatedAxisMatch(camp_axes[Head(shared)[1]], Head(shared)[2][1])
         + StatedMatchSum(Tail(shared), camp_axes)

SinglePreferenceCall ==
    /\ Returned
    /\ Len(SelectSeq(call.profile.axes, LAMBDA p : p[2] # None)) = 1
    /\ call.profile.description = None
    /\ call.profile.hometown = None

SingleKey == SelectSeq(call.profile.axes, LAMBDA p : p[2] # None)[1][1]

SinglePref == SelectSeq(call.profile.axes, LAMBDA p : p[2] # None)[1][2][1]

\* Returned positions k, l whose camps both carry the single axis, k's score higher.
HigherOnSingleAxis(k, l) ==
    /\ SingleKey \in DOMAIN results[k].axes
    /\ SingleKey \in DOMAIN results[l].axes
    /\ results[k].axes[SingleKey] > results[l].axes[SingleKey]

MonotoneScores(k, l) ==
    /\ ~RLess(results[k].component_scores.axis_match, results[l].component_scores.axis_match)
    /\ ~RLess(results[k].score, results[l].score)
    /\ (results[k].axes[SingleKey] < SinglePref /\ results[l].axes[SingleKey] < SinglePref) =>
          /\ RLess(results[l].component_scores.axis_match,
                   results[k].component_scores.axis_match)
          /\ RLess(results[l].score, results[k].score)

\* C7 as claimed: with a single axis preference p, the camp scoring higher on
\* that axis never has a lower axis_match or final score, has strictly higher
\* ones when both camps score below p, and is never ranked below the other.
C7_NeverRankedBelow ==
    (SinglePreferenceCall /\ RLess(FromInt(0), call.weights.axis)) =>
        \A k, l \in 1..Len(results) :
            HigherOnSingleAxis(k, l) => (MonotoneScores(k, l) /\ k < l)

\* C7 as amended: the same, except that the higher-scoring camp is ranked above
\* the other only when the other scores below p + 10; when both score at least
\* p + 10 both matches are capped at 110, the scores tie, and either order occurs.
C7_MonotoneShortfall ==
    (SinglePreferenceCall /\ RLess(FromInt(0), call.weights.axis)) =>
        \A k, l \in 1..Len(results) :
            HigherOnSingleAxis(k, l) =>
                /\ MonotoneScores(k, l)
                /\ results[l].axes[SingleKey] < SinglePref + 10 => k < l
                /\ results[l].axes[SingleKey] >= SinglePref + 10 =>
                      SameScore(results[k].score, results[l].score)

C7_Witness ==
    /\ SinglePreferenceCall
    /\ SinglePref = 80
    /\ Len(results) = 2
    /\ HigherOnSingleAxis(1, 2)
    /\ results[1].axes[SingleKey] = 30
    /\ results[2].axes[SingleKey] = 10
    /\ results[1].uid = 2
    /\ results[1].component_scores.axis_match = <<50, 1>>
    /\ results[2].component_scores.axis_match = <<30, 1>>

\* Axis keys the call sets that no camp of the store carries.
UnknownKeys ==
    {call.profile.axes[i][1] : i \in {j \in 1..Len(call.profile.axes) :
        /\ call.profile.axes[j][2] # None
        /\ \A c \in 1..Len(camps) : call.profile.axes[j][1] \notin DOMAIN camps[c].axes}}

WithoutKeys(profile, keys) ==
    [profile EXCEPT !.axes = SelectSeq(profile.axes, LAMBDA p : p[1] \notin keys)]

\* The call's result is what rank returns for profile p (same sort outcome).
SameAsRankOf(p) ==
    /\ \E q \in NpArgsort(FinalScores(camps, p, call.user_embedding, call.weights)) :
          ranked_indices = RankedIndices(q)
    /\ results = BuildResults(camps, p, call.user_embedding, call.weights, call.top_k,
                              ranked_indices)

\* C8: when the profile sets an axis key that the store does not have, every
\* returned axis_match and score is a number (never nan) and the result is the
\* one rank returns for the profile without that key.
C8_UnknownAxisSkipped ==
    (Returned /\ UnknownKeys # {}) =>
        /\ \A k \in 1..Len(results) :
              /\ ~IsNaN(results[k].component_scores.axis_match)
              /\ ~IsNaN(results[k].score)
        /\ SameAsRankOf(WithoutKeys(call.profile, UnknownKeys))

NoneKeys ==
    {call.profile.axes[i][1] : i \in {j \in 1..Len(call.profile.axes) :
        call.profile.axes[j][2] = None}}

\* C9: an axis preference that is None changes nothing: the ranked list with its
\* scores, component scores and explanations is the one rank returns for the
\* profile without that axis; the route never passes a None preference on.
C9_NoneIsNoOpinion ==
    Returned =>
        /\ SameAsRankOf(WithoutKeys(call.profile, NoneKeys))
        /\ request # <<>> => NoneKeys = {}

C9_Witness ==
    /\ Returned
    /\ request = <<>>
    /\ call.profile.axes = << <<"music_jazz_blues", None>>, <<"sober", Some(90)>> >>
    /\ Len(results) = 2
    /\ \E k \in 1..2 :
          /\ results[k].axes = [a \in {"music_jazz_blues", "sober"} |->
                                   IF a = "music_jazz_blues" THEN 100 ELSE 10]
          /\ results[k].component_scores.axis_match = <<20, 1>>

(***************************************************************************)
(* C11: when the profile has a description and the embedder fails (the     *)
(* model cannot be loaded, or encode raises), rank() ends in an exception: *)
(* the caller gets no result list, no query embedding was made up (neither *)
(* the neutral 0.5 of the no-description path nor any stand-in vector), and*)
(* nothing was ranked.  Conversely a list returned for a profile with a    *)
(* description was always scored with the vector encode() produced.        *)
(***************************************************************************)
Raised == pc = "raised"

C11_EmbedderFailureSurfaced ==
    /\ Raised =>
          /\ call.profile.description # None
          /\ call.user_embedding = None
          /\ ranked_indices = <<>>
          /\ results = <<>>
    /\ (Returned /\ call.profile.description # None) =>
          /\ call.user_embedding \in {Some(e) : e \in EncodeOutcomes}
          /\ model = "SentenceTransformer"
          /\ \A k \in 1..Len(results) :
                results[k].component_scores.embedding_similarity =
                    FromInt(100 * Dot(camps[results[k].uid].embedding,
                                      call.user_embedding[1]))

\* encode() raised on a loaded model, for a described profile over two camps.
C11_Witness ==
    /\ Raised
    /\ model = "SentenceTransformer"
    /\ call.profile.description = Some("breathwork")
    /\ Len(camps) = 2
    /\ results = <<>>

(***************************************************************************)
(* The geographic bonus over all short hometown strings: a store of one    *)
(* camp, a profile that sets only the hometown.                            *)
(***************************************************************************)
MaxStrLen == 3

GeoAlphabet == {"O", "o", "a", " "}

GeoStrings ==
    UNION {[1..n -> GeoAlphabet] : n \in 0..MaxStrLen}
    \cup {Oakland, OaklandLower, OaklandCA, Berkeley}

InitGeo ==
    /\ camps \in { << [name |-> "Alpha", uid |-> 1, hometown |-> h, embedding |-> <<1, 0>>,
                       axes |-> [k \in {"music_jazz_blues"} |-> 100],
                       event_count |-> 0, years_active |-> 1] >> : h \in GeoStrings }
    /\ model = "None"
    /\ pc = "idle"
    /\ request = <<>>
    /\ call = <<>>
    /\ ranked_indices = <<>>
    /\ results = <<>>
    /\ PipelineOff
    /\ threads = <<>>

RankGeo ==
    /\ pc = "idle"
    /\ \E h \in GeoStrings :
          RankCall(<<>>, UserProfile(None, Some(h), <<>>), DefaultTopK, DefaultWeights)

NextGeo == RankGeo \/ Return

SpecGeo == InitGeo /\ [][NextGeo]_vars

\* s without its leading and trailing spaces, stated without recursion: the
\* stretch between the first and the last non-space character.
Trimmed(s) ==
    LET solid == {i \in 1..Len(s) : s[i] # " "}
    IN  IF solid = {} THEN <<>>
        ELSE SubSeq(s, CHOOSE i \in solid : \A j \in solid : i <= j,
                       CHOOSE i \in solid : \A j \in solid : i >= j)

LowerCased(s) ==
    [i \in 1..Len(s) |->
        CASE s[i] = "O" -> "o" [] s[i] = "A" -> "a" [] s[i] = "B" -> "b"
          [] s[i] = "C" -> "c" [] OTHER -> s[i]]

\* a occurs in b as a contiguous stretch
Substring(a, b) ==
    \E pre, post \in 0..Len(b) :
        /\ pre + Len(a) + post = Len(b)
        /\ \A i \in 1..Len(a) : b[pre + i] = a[i]

StatedBonus(profile_hometown, camp_hometown) ==
    LET u == Trimmed(LowerCased(profile_hometown))
        c == Trimmed(LowerCased(camp_hometown))
    IN  IF u = c THEN 10
        ELSE IF Substring(u, c) \/ Substring(c, u) THEN 5
        ELSE 0

\* C10: for a profile with a hometown, each camp's bonus is 10 when the
\* lower-cased, trimmed hometowns are equal, 5 when they differ and one contains
\* the other, 0 otherwise, and nothing else; 'Oakland' gives 10 against
\* 'oakland', 5 against 'Oakland, CA' and 0 against 'Berkeley'.
C10_GeographicBonusMapping ==
    (Returned /\ call.profile.hometown # None) =>
        \A k \in 1..Len(results) :
            LET b == results[k].component_scores.geographic_bonus
                h == call.profile.hometown[1]
            IN  /\ b = FromInt(StatedBonus(h, results[k].hometown))
                /\ b \in {<<0, 1>>, <<5, 1>>, <<10, 1>>}
                /\ (h = Oakland /\ results[k].hometown = OaklandLower) => b = <<10, 1>>
                /\ (h = Oakland /\ results[k].hometown = OaklandCA) => b = <<5, 1>>
                /\ (h = Oakland /\ results[k].hometown = Berkeley) => b = <<0, 1>>

C10_Witness ==
    /\ Returned
    /\ call.profile.hometown = Some(Oakland)
    /\ Len(results) = 1
    /\ results[1].hometown = OaklandCA
    /\ results[1].component_scores.geographic_bonus = <<5, 1>>

(***************************************************************************)
(* shape_data.py: the Shaper.  A JSON object is a function whose DOMAIN is *)
(* its keys, so a missing key is a key outside DOMAIN; a JSON null is      *)
(* None.  Optional strings and the events list are None or Some(value); a  *)
(* history list that is null behaves as the empty list everywhere it is    *)
(* read (`if not history_records`) and is modelled as <<>>.                *)
(***************************************************************************)
MaxRoster == 2

MaxRuns == 2

\* dict.get(key, default).
DictGet(d, key, default) == IF key \in DOMAIN d THEN d[key] ELSE default

\* The concatenation of a sequence of lists.
RECURSIVE ConcatAll(_)
ConcatAll(lists) ==
    IF lists = <<>> THEN <<>> ELSE Head(lists) \o ConcatAll(Tail(lists))

\* seq without its i-th element.
RemoveAt(seq, i) == SubSeq(seq, 1, i - 1) \o SubSeq(seq, i + 1, Len(seq))

\* Variant that leaves the records in their input order; C26 rejects it.
SortedByYearDescMutInputOrder(history_records) == history_records

\* sorted(history_records, key=lambda x: x['year'], reverse=True): stable,
\* records of the same year keep their order.
RECURSIVE SortedByYearDesc(_)
SortedByYearDesc(history_records) ==
    IF history_records = <<>> THEN <<>>
    ELSE LET i == CHOOSE i \in 1..Len(history_records) :
                      /\ \A j \in 1..Len(history_records) :
                            history_records[j].year <= history_records[i].year
                      /\ \A j \in 1..(i - 1) :
                            history_records[j].year < history_records[i].year
         IN  <<history_records[i]>> \o SortedByYearDesc(RemoveAt(history_records, i))

\* extract_year_range.
ExtractYearRange(history_records) ==
    IF history_records = <<>>
    THEN [first_year |-> None, last_year |-> None, total_years |-> 0, years |-> <<>>]
    ELSE Only({[first_year |-> Some(years[1]), last_year |-> Some(years[Len(years)]),
                total_years |-> Len(years), years |-> years] :
                 years \in {Reversed([i \in 1..Len(descending) |-> descending[i].year]) :
                              descending \in {SortedByYearDesc(history_records)}}})

\* consolidate_descriptions.
ConsolidateDescriptions(history_records) ==
    IF history_records = <<>>
    THEN [all_descriptions |-> <<>>, latest_description |-> <<>>]
    ELSE LET Part(record) ==
                 Only({IF desc # <<>>
                       THEN << Str("[") \o IntToStr(record.year) \o Str("] ") \o desc >>
                       ELSE <<>> :
                          desc \in {CleanText(DictGet(record, "description", Some(<<>>)))}})
         IN  Only({[all_descriptions |->
                        StrJoin(Str(" "),
                                ConcatAll([i \in 1..Len(sorted_records) |->
                                              Part(sorted_records[i])])),
                    latest_description |->
                        CleanText(DictGet(sorted_records[1], "description", Some(<<>>)))] :
                      sorted_records \in {SortedByYearDesc(history_records)}})

\* The text of one event in consolidate_events: title, then ". " and the
\* description when there is one.
EventText(event) ==
    Only({IF description # <<>> THEN title \o Str(". ") \o description ELSE title :
             title \in {CleanText(DictGet(event, "title", Some(<<>>)))},
             description \in {CleanText(DictGet(event, "description", Some(<<>>)))}})

\* event_types of consolidate_events: the count of every event_type, in the
\* order of first appearance (dict insertion order).
RECURSIVE CountTypes(_, _)
CountTypes(types, counted) ==
    IF types = <<>> THEN counted
    ELSE IF \E k \in 1..Len(counted) : counted[k][1] = Head(types)
    THEN CountTypes(Tail(types),
                    [k \in 1..Len(counted) |->
                        IF counted[k][1] = Head(types)
                        THEN <<counted[k][1], counted[k][2] + 1>> ELSE counted[k]])
    ELSE CountTypes(Tail(types), Append(counted, <<Head(types), 1>>))

\* `for event in events` of consolidate_events raises TypeError when a
\* record's events value is null (record.get('events', []) returns None).
EventsNotIterable(history_records) ==
    \E i \in 1..Len(history_records) :
        DictGet(history_records[i], "events", Some(<<>>)) = None

\* consolidate_events, for records whose events are lists.
ConsolidateEvents(history_records) ==
    IF history_records = <<>>
    THEN [event_text |-> <<>>, recent_event_text |-> <<>>, event_count |-> 0,
          event_types |-> <<>>]
    ELSE LET Events(record) == DictGet(record, "events", Some(<<>>))[1]
             \* per record: the non-empty event texts and the event types
             Texts(sorted_records) ==
                 [i \in 1..Len(sorted_records) |->
                     SelectSeq([k \in 1..Len(Events(sorted_records[i])) |->
                                   EventText(Events(sorted_records[i])[k])],
                               LAMBDA t : t # <<>>)]
             Types(sorted_records) ==
                 [i \in 1..Len(sorted_records) |->
                     [k \in 1..Len(Events(sorted_records[i])) |->
                         DictGet(Events(sorted_records[i])[k], "event_type", "Unknown")]]
         IN  Only({[event_text |-> StrJoin(Str(" "), ConcatAll(texts)),
                    recent_event_text |->
                        StrJoin(Str(" "),
                                ConcatAll([i \in 1..Len(sorted_records) |->
                                              IF sorted_records[i].year = sorted_records[1].year
                                              THEN texts[i] ELSE <<>>])),
                    event_count |-> Len(ConcatAll(texts)),
                    event_types |-> CountTypes(ConcatAll(Types(sorted_records)), <<>>)] :
                      sorted_records \in {SortedByYearDesc(history_records)},
                      texts \in {Texts(SortedByYearDesc(history_records))}})

\* history_data.get(camp_name, {}).get('history', []).
HistoryRecords(camp, history_data) ==
    DictGet(DictGet(history_data, camp.name, <<>>), "history", <<>>)

\* Mutant: the latest description enters the corpus once.
TextCorpusPartsMutSingleLatest(descriptions, events) ==
    (IF descriptions.latest_description # <<>>
     THEN <<descriptions.latest_description>> ELSE <<>>)
    \o (IF descriptions.all_descriptions # <<>>
        THEN <<descriptions.all_descriptions>> ELSE <<>>)
    \o (IF events.event_text # <<>> THEN <<events.event_text>> ELSE <<>>)

\* text_corpus_parts of create_shaped_record.
TextCorpusParts(descriptions, events) ==
    (IF descriptions.latest_description # <<>>
     THEN <<descriptions.latest_description, descriptions.latest_description>>
     ELSE <<>>)
    \o (IF descriptions.all_descriptions # <<>>
        THEN <<descriptions.all_descriptions>> ELSE <<>>)
    \o (IF events.event_text # <<>> THEN <<events.event_text>> ELSE <<>>)

\* create_shaped_record, for a camp whose shaping does not raise.  The
\* fields url, contact_email, location_string and location are camp.get(key)
\* passed through and are left out.
CreateShapedRecord(camp, history_data) ==
    LET Record(year_info, descriptions, events, text_corpus) ==
            [uid |-> DictGet(camp, "uid", None),
             name |-> camp.name,
             year |-> DictGet(camp, "year", 2025),
             hometown |->
                 StrStrip(StrLower(IF DictGet(camp, "hometown", None) = None
                                   THEN <<>> ELSE camp.hometown[1])),
             hometown_raw |-> DictGet(camp, "hometown", None),
             years_active |-> year_info,
             text_corpus |-> text_corpus,
             latest_description |-> descriptions.latest_description,
             all_descriptions |-> descriptions.all_descriptions,
             event_text |-> events.event_text,
             recent_event_text |-> events.recent_event_text,
             event_count |-> events.event_count,
             event_types |-> events.event_types,
             images |-> DictGet(camp, "images", <<>>),
             text_corpus_length |-> Len(text_corpus),
             has_events |-> events.event_count > 0,
             has_description |-> Len(descriptions.latest_description) > 0]
    IN  Only({Only({Record(year_info, descriptions, events, text_corpus) :
                      text_corpus \in
                          {StrJoin(Str(" "), TextCorpusParts(descriptions, events))}}) :
                 year_info \in {ExtractYearRange(HistoryRecords(camp, history_data))},
                 descriptions \in
                     {ConsolidateDescriptions(HistoryRecords(camp, history_data))},
                 events \in {ConsolidateEvents(HistoryRecords(camp, history_data))}})

\* shape_all_camps: the list of shaped records in roster order, or the
\* TypeError of the first camp whose events cannot be iterated.
ShapeAllCamps(camps_list, history_data) ==
    IF \E i \in 1..Len(camps_list) :
           EventsNotIterable(HistoryRecords(camps_list[i], history_data))
    THEN [pc |-> "raised", value |-> <<>>]
    ELSE [pc |-> "returned",
          value |-> [i \in 1..Len(camps_list) |->
                        CreateShapedRecord(camps_list[i], history_data)]]

(***************************************************************************)
(* Inputs of the pipeline: camps.json (the roster) and campHistory.json.   *)
(* Camps A and B are the two camps of the worked scenario of the Axis      *)
(* Scorer; the others carry the shapes of missing data the Shaper reads    *)
(* through dict.get, and Mixed a history whose years are out of order.     *)
(***************************************************************************)
RosterPool ==
    << [name |-> "A", uid |-> "uid-a", hometown |-> Some(Str(" Oakland, CA"))],
       [name |-> "B", uid |-> "uid-b", hometown |-> Some(Str("Reno")),
        images |-> <<"b.jpg">>, year |-> 2024],
       [name |-> "NoEntry", uid |-> "uid-n"],
       [name |-> "Boiler", uid |-> "uid-o", hometown |-> None],
       [name |-> "NullEvents", uid |-> "uid-e", hometown |-> Some(Str("Reno"))],
       [name |-> "TwoYears", uid |-> "uid-t", hometown |-> Some(<<>>)],
       [name |-> "Bare", uid |-> "uid-r", hometown |-> None],
       [name |-> "Full", uid |-> "uid-f", hometown |-> Some(Str("Oakland"))],
       [name |-> "Mixed", uid |-> "uid-m", hometown |-> Some(Str("Reno"))] >>

MidnightTechnoSet == [title |-> Some(Str("Midnight Techno Set")), event_type |-> "Music"]

CampHistory ==
    [A |-> [history |->
              << [year |-> 2024, description |-> Some(Str("sunrise yoga and coffee")),
                  events |-> Some(<<>>)] >>],
     B |-> [history |->
              << [year |-> 2024, description |-> Some(<<>>),
                  events |-> Some(<< MidnightTechnoSet, MidnightTechnoSet,
                                     MidnightTechnoSet, MidnightTechnoSet,
                                     MidnightTechnoSet >>)] >>],
     Boiler |-> [history |->
              << [year |-> 2023, description |-> Some(Str("See the Playa Events app"))] >>],
     NullEvents |-> [history |->
              << [year |-> 2024, description |-> Some(Str("tea bar")),
                  events |-> None] >>],
     TwoYears |-> [history |->
              << [year |-> 2023,
                  description |-> Some(Str("Tea  house\n located at 9:15 daily")),
                  events |-> Some(<< [title |-> Some(Str("DJ night")),
                                      description |-> Some(Str("techno at the bar")),
                                      event_type |-> "Party"] >>)],
                 [year |-> 2024, description |-> None,
                  events |-> Some(<< [title |-> None,
                                      description |-> Some(Str("morning tea"))],
                                     [description |-> None, event_type |-> "Party"] >>)] >>],
     Bare |-> [history |-> << [year |-> 2022] >>],
     Full |-> [history |->
              << [year |-> 2024, description |-> Some(Str("Coffee bar, house music")),
                  events |-> Some(<< [title |-> Some(Str("Brunch")),
                                      description |-> Some(Str("Come see us at our camp")),
                                      event_type |-> "Food"] >>)] >>],
     Mixed |-> [history |->
              << [year |-> 2022, description |-> Some(Str("am camp"))],
                 [year |-> 2024, description |-> Some(Str("tea"))],
                 [year |-> 2023, description |-> Some(Str("bar"))] >>]]

\* Lists of n distinct positions of a pool of the given size.
Picks(size, n) ==
    {f \in [1..n -> 1..size] : \A i, j \in 1..n : i # j => f[i] # f[j]}

Rosters ==
    UNION {{[i \in 1..n |-> RosterPool[f[i]]] : f \in Picks(Len(RosterPool), n)} :
              n \in 1..MaxRoster}

(***************************************************************************)
(* Numbers of the scorers: exact rationals again.                          *)
(***************************************************************************)
RSub(a, b) == RAdd(a, RMul(FromInt(-1), b))

\* a / b on numpy floats: a zero divisor gives no exception but nan (or inf,
\* which no guarded division of the scorers can reach either).
RDiv(a, b) == IF IsNaN(a) \/ IsNaN(b) \/ b[1] = 0 THEN NaN
              ELSE Rat(a[1] * b[2], a[2] * b[1])

RMin(a, b) == IF RLess(b, a) THEN b ELSE a

RMax(a, b) == IF RLess(a, b) THEN b ELSE a

\* The list sorted ascending, as np.percentile sorts its input.
RECURSIVE SortedAscending(_)
SortedAscending(a) ==
    IF a = <<>> THEN <<>>
    ELSE LET i == CHOOSE i \in 1..Len(a) : \A j \in 1..Len(a) : RLeq(a[i], a[j])
         IN  <<a[i]>> \o SortedAscending(RemoveAt(a, i))

\* np.percentile(a, q), linear interpolation between the closest ranks.
NpPercentile(a, q) ==
    LET position == Rat(q * (Len(a) - 1), 100)
        below == position[1] \div position[2]
        fraction == RSub(position, FromInt(below))
    IN  Only({IF below + 1 >= Len(a) THEN sorted[Len(a)]
              ELSE RAdd(sorted[below + 1],
                        RMul(fraction, RSub(sorted[below + 2], sorted[below + 1]))) :
                 sorted \in {SortedAscending(a)}})

\* round(x, 1) for x >= 0: the nearest tenth, a tie going to the even digit.
Round1(x) ==
    LET tenths == RMul(x, FromInt(10))
        whole == tenths[1] \div tenths[2]
        twice_rest == 2 * (tenths[1] % tenths[2])
    IN  IF IsNaN(x) THEN NaN
        ELSE IF twice_rest < tenths[2] THEN Rat(whole, 10)
        ELSE IF twice_rest > tenths[2] THEN Rat(whole + 1, 10)
        ELSE IF whole % 2 = 0 THEN Rat(whole, 10)
        ELSE Rat(whole + 1, 10)

(***************************************************************************)
(* generate_features.py: the Axis Scorer.  An axis definition is a dict    *)
(* with name and keywords; the axes are the module dictionary FEATURE_AXES,*)
(* an ordered list of <<axis_key, definition>> pairs here.                 *)
(***************************************************************************)
\* \b at the gap after position k of text (k = 0 is the start): exactly one
\* side is a word character.
WordBoundary(text, k) ==
    (k >= 1 /\ IsWordChar(text[k])) # (k < Len(text) /\ IsWordChar(text[k + 1]))

\* r'\b' + re.escape(keyword) + r'\b' matches text at position i.
KeywordMatchesAt(text, keyword, i) ==
    /\ i + Len(keyword) - 1 <= Len(text)
    /\ SubSeq(text, i, i + Len(keyword) - 1) = keyword
    /\ WordBoundary(text, i - 1)
    /\ WordBoundary(text, i + Len(keyword) - 1)

\* len(re.findall(pattern, text_lower)) from position i on: the matches are
\* found left to right and do not overlap, so the count is one for the
\* leftmost match and the count from the position after it.
RECURSIVE FindAllCount(_, _, _)
FindAllCount(text, keyword, i) ==
    Only({IF starts = {} THEN 0
          ELSE 1 + FindAllCount(text, keyword,
                                (CHOOSE m \in starts : \A n \in starts : m <= n)
                                    + Len(keyword)) :
             starts \in {{m \in i..Len(text) : KeywordMatchesAt(text, keyword, m)}}})

\* count_keywords.
CountKeywords(text, keywords) ==
    IF text = <<>> THEN 0
    ELSE Only({SumSeq([k \in 1..Len(keywords) |->
                         FindAllCount(text_lower, StrLower(keywords[k]), 1)]) :
                  text_lower \in {StrLower(text)}})

\* compute_axis_score, for an axis that has keywords.
ComputeAxisScore(camp, axis) ==
    LET keywords == axis.keywords
        text == DictGet(camp, "text_corpus", <<>>)
        text_length == Len(text)
    IN  IF text_length = 0
        THEN [raw_count |-> 0, normalized_score |-> FromInt(0), density |-> FromInt(0)]
        ELSE Only({[raw_count |-> raw_count,
                    density |-> RMul(Rat(raw_count, text_length), FromInt(1000)),
                    text_length |-> text_length] :
                      raw_count \in {CountKeywords(text, keywords)}})

\* d[key] = value on a dict.
DictSet(d, key, value) ==
    [k \in DOMAIN d \cup {key} |-> IF k = key THEN value ELSE d[k]]

\* Mutant: the above-median scale is used at and above the 95th percentile too.
NormalizedMutNoCap(density, p50, p95) ==
    IF density = FromInt(0) THEN FromInt(0)
    ELSE IF RGeq(density, p50)
    THEN RAdd(FromInt(50), RMul(RDiv(RSub(density, p50), RSub(p95, p50)), FromInt(50)))
    ELSE RMul(RDiv(density, p50), FromInt(50))

\* The piecewise mapping of normalize_axis_scores.
Normalized(density, p50, p95) ==
    IF density = FromInt(0) THEN FromInt(0)
    ELSE IF RGeq(density, p95) THEN FromInt(100)
    ELSE IF RGeq(density, p50)
    THEN RAdd(FromInt(50), RMul(RDiv(RSub(density, p50), RSub(p95, p50)), FromInt(50)))
    ELSE RMul(RDiv(density, p50), FromInt(50))

\* densities of normalize_axis_scores: those of the camps with a non-zero one.
NonZeroDensities(scores, axis_key) ==
    SelectSeq([i \in 1..Len(scores) |-> scores[i].axes[axis_key].density],
              LAMBDA d : RLess(FromInt(0), d))

\* normalize_axis_scores: with no non-zero density the scores are returned
\* as they are; otherwise every camp's axis entry gets its normalized_score.
NormalizeAxisScores(scores, axis_key) ==
    Only({IF densities = <<>> THEN scores
          ELSE Only({[i \in 1..Len(scores) |->
                        [scores[i] EXCEPT !.axes[axis_key] =
                            DictSet(@, "normalized_score",
                                    Round1(Normalized(@.density, p50, p95)))]] :
                       p50 \in {NpPercentile(densities, 50)},
                       p95 \in {NpPercentile(densities, 95)}}) :
             densities \in {NonZeroDensities(scores, axis_key)}})

\* The second pass of compute_all_features over axes[k..].
RECURSIVE NormalizeFrom(_, _, _)
NormalizeFrom(scores, axes, k) ==
    IF k > Len(axes) THEN scores
    ELSE Only({NormalizeFrom(normalized, axes, k + 1) :
                  normalized \in {NormalizeAxisScores(scores, axes[k][1])}})

\* The first pass of compute_all_features.
RawScores(camps_list, axes) ==
    [i \in 1..Len(camps_list) |->
        [uid |-> camps_list[i].uid,
         name |-> camps_list[i].name,
         axes |-> [key \in {axes[k][1] : k \in 1..Len(axes)} |->
                      ComputeAxisScore(camps_list[i],
                          axes[CHOOSE k \in 1..Len(axes) : axes[k][1] = key][2])]]]

\* compute_all_features: both passes, or the KeyError of axis['keywords'] in
\* compute_axis_score for the first camp when an axis has no keywords entry.
ComputeAllFeatures(camps_list, axes) ==
    IF camps_list # <<>> /\ \E k \in 1..Len(axes) : "keywords" \notin DOMAIN axes[k][2]
    THEN [pc |-> "raised", value |-> <<>>]
    ELSE [pc |-> "returned",
          value |-> Only({NormalizeFrom(all_scores_raw, axes, 1) :
                            all_scores_raw \in {RawScores(camps_list, axes)}})]

\* main reads ['normalized_score'] of every camp and axis, first in
\* print_axis_statistics and then for the feature records: KeyError when an
\* entry has none.
ScoreMissing(scores, axes) ==
    \E i \in 1..Len(scores), k \in 1..Len(axes) :
        "normalized_score" \notin DOMAIN scores[i].axes[axes[k][1]]

\* features_data of main: the Feature Store rows (the embedding column comes
\* from model.encode and is left out), or the KeyError.
FeatureRecords(camps_list, scores, axes) ==
    IF ScoreMissing(scores, axes) THEN [pc |-> "raised", value |-> <<>>]
    ELSE [pc |-> "returned",
          value |-> [i \in 1..Len(camps_list) |->
              [uid |-> camps_list[i].uid,
               name |-> camps_list[i].name,
               hometown |-> camps_list[i].hometown,
               axes |-> [key \in {axes[k][1] : k \in 1..Len(axes)} |->
                            [score |-> scores[i].axes[key].normalized_score,
                             raw_count |-> scores[i].axes[key].raw_count]],
               has_description |-> camps_list[i].has_description,
               has_events |-> camps_list[i].has_events,
               event_count |-> camps_list[i].event_count,
               years_active |-> camps_list[i].years_active.total_years]]]

(***************************************************************************)
(* generate_personality_features.py.                                       *)
(***************************************************************************)
\* str.count(keyword) from position i on: non-overlapping occurrences, one
\* for the leftmost and the count from the position after it.
RECURSIVE StrCount(_, _, _)
StrCount(text, keyword, i) ==
    Only({IF starts = {} THEN 0
          ELSE 1 + StrCount(text, keyword,
                            (CHOOSE m \in starts : \A n \in starts : m <= n)
                                + Len(keyword)) :
             starts \in {{m \in i..(Len(text) - Len(keyword) + 1) :
                            SubSeq(text, m, m + Len(keyword) - 1) = keyword}}})

\* compute_keyword_score.
ComputeKeywordScore(text, keywords) ==
    Only({SumSeq([k \in 1..Len(keywords) |-> StrCount(text_lower, keywords[k], 1)]) :
             text_lower \in {StrLower(text)}})

\* norm of one score in main: the two guarded branches, then the clamp.
PersonalityNorm(score, p0, p50, p95) ==
    Only({RMax(FromInt(0), RMin(FromInt(100), norm)) :
             norm \in {IF RLeq(score, p50)
                       THEN (IF RLess(p0, p50)
                             THEN RDiv(RMul(FromInt(50), RSub(score, p0)), RSub(p50, p0))
                             ELSE FromInt(0))
                       ELSE (IF RLess(p50, p95)
                             THEN RAdd(FromInt(50),
                                       RDiv(RMul(FromInt(50), RSub(score, p50)),
                                            RSub(p95, p50)))
                             ELSE FromInt(50))}})

\* raw_scores[axis_key] of main: one count per camp.
PersonalityRawScores(camps_list, axis) ==
    [i \in 1..Len(camps_list) |->
        FromInt(ComputeKeywordScore(camps_list[i].text_corpus, axis.keywords))]

\* normalized_scores[axis_key] of main.
PersonalityNormalized(scores) ==
    Only({[i \in 1..Len(scores) |-> PersonalityNorm(scores[i], p0, p50, p95)] :
             p0 \in {SortedAscending(scores)[1]},
             p50 \in {NpPercentile(scores, 50)},
             p95 \in {NpPercentile(scores, 95)}})

\* main, steps 2 and 3: raw_scores and normalized_scores by axis key, and
\* the feature records (the embedding column comes from model.encode and
\* is left out).
PersonalityMain(camps_list, axes) ==
    LET Axis(key) == axes[CHOOSE k \in 1..Len(axes) : axes[k][1] = key][2]
        keys == {axes[k][1] : k \in 1..Len(axes)}
        Features(normalized_scores) ==
            [i \in 1..Len(camps_list) |->
                [name |-> camps_list[i].name,
                 uid |-> camps_list[i].uid,
                 hometown |-> camps_list[i].hometown,
                 years_active |-> camps_list[i].years_active.total_years,
                 event_count |-> camps_list[i].event_count,
                 axes |-> [key \in keys |->
                              [name |-> Axis(key).name,
                               score |-> normalized_scores[key][i]]]]]
    IN  Only({Only({[raw_scores |-> raw_scores,
                     normalized_scores |-> normalized_scores,
                     features |-> Features(normalized_scores)] :
                       normalized_scores \in
                           {[key \in keys |-> PersonalityNormalized(raw_scores[key])]}}) :
                 raw_scores \in
                     {[key \in keys |-> PersonalityRawScores(camps_list, Axis(key))]}})

(***************************************************************************)
(* Axis definitions.  FEATURE_AXES is read as configuration: two axes of   *)
(* the dictionary in the source, the two axes of the worked scenario, and  *)
(* the scenario's axes next to an axis whose keyword list is empty or      *)
(* missing.  PERSONALITY_AXES are two axes of the source's dictionary.     *)
(***************************************************************************)
FEATURE_AXES ==
    << <<"music_electronic",
         [name |-> "Electronic Dance Music",
          keywords |-> << Str("techno"), Str("house"),
                          Str("house music"), Str("deep house"),
                          Str("tech house"), Str("trance"),
                          Str("psytrance"), Str("progressive"),
                          Str("edm"), Str("electronic dance"),
                          Str("minimal"), Str("detroit techno"),
                          Str("acid house"), Str("drum and bass"),
                          Str("dnb"), Str("dubstep"), Str("bass music"),
                          Str("electro") >>]>>,
       <<"hospitality",
         [name |-> "Food/Hospitality",
          keywords |-> << Str("bar"), Str("drinks"), Str("coffee"),
                          Str("tea"), Str("food"), Str("kitchen"),
                          Str("meal"), Str("breakfast"), Str("brunch"),
                          Str("dinner"), Str("feast"), Str("restaurant"),
                          Str("cafe"), Str("beverage"), Str("cocktail"),
                          Str("mocktail"), Str("beer"), Str("wine"),
                          Str("snacks") >>]>> >>

ScenarioAxes ==
    << <<"early_bird",
         [name |-> "Early Bird",
          keywords |-> << Str("sunrise"), Str("morning"), Str("coffee") >>]>>,
       <<"night_owl",
         [name |-> "Night Owl",
          keywords |-> << Str("midnight"), Str("techno") >>]>> >>

AxisConfigs ==
    { FEATURE_AXES,
      ScenarioAxes,
      Append(ScenarioAxes, <<"workshops", [name |-> "Workshops", keywords |-> <<>>]>>),
      Append(ScenarioAxes, <<"workshops", [name |-> "Workshops"]>>) }

PERSONALITY_AXES ==
    << <<"night_owl",
         [name |-> "Night Owl",
          keywords |-> << Str("night"), Str("midnight"), Str("late"),
                          Str("dawn"), Str("sunrise"), Str("2am"),
                          Str("3am"), Str("all night"), Str("nocturnal"),
                          Str("after dark"), Str("evening"),
                          Str("sunset"), Str("late night"),
                          Str("nighttime") >>]>>,
       <<"early_bird",
         [name |-> "Early Bird",
          keywords |-> << Str("morning"), Str("sunrise"),
                          Str("breakfast"), Str("dawn"), Str("early"),
                          Str("am"), Str("wake"), Str("coffee"),
                          Str("first light"), Str("daybreak"),
                          Str("brunch"), Str("yoga"),
                          Str("morning ritual") >>]>> >>

(***************************************************************************)
(* The pipeline as a state machine.                                        *)
(***************************************************************************)
InitPipeline ==
    /\ camps = <<>>
    /\ model = "None"
    /\ pc = "idle"
    /\ request = <<>>
    /\ call = <<>>
    /\ ranked_indices = <<>>
    /\ results = <<>>
    /\ \E r \in Rosters :
          /\ data_files = [camps |-> r, campHistory |-> CampHistory]
          /\ roster = r
    /\ history = CampHistory
    /\ shape_runs = <<>>
    /\ feature_axes \in AxisConfigs
    /\ all_scores = <<>>
    /\ percentiles = <<>>
    /\ features_data = <<>>
    /\ personality_features = <<>>
    /\ stage = "loaded"
    /\ threads = <<>>

\* Mutant: shaping sorts every camp's history list in place.
InputsAfterShapingMutSortInPlace(camps_list, history_data) ==
    <<camps_list,
      [n \in DOMAIN history_data |->
          [history |-> SortedByYearDesc(history_data[n].history)]]>>

\* The roster and the history map after shape_all_camps: no statement of the
\* Shaper assigns into camp or history_data (sorted() builds new lists).
InputsAfterShaping(camps_list, history_data) == <<camps_list, history_data>>

\* shape_all_camps(camps, history), run on the loaded inputs.
RunShapeAllCamps ==
    /\ stage \in {"loaded", "shaped", "shape_raised"}
    /\ Len(shape_runs) < MaxRuns
    /\ \E run \in {ShapeAllCamps(roster, history)},
          after \in {InputsAfterShaping(roster, history)} :
           /\ shape_runs' = Append(shape_runs, run)
           /\ roster' = after[1]
           /\ history' = after[2]
           /\ stage' = IF run.pc = "raised" THEN "shape_raised" ELSE "shaped"
    /\ UNCHANGED <<data_files, percentiles, feature_axes, all_scores, features_data,
                   personality_features>>
    /\ UNCHANGED <<ranker_vars, threads>>

\* The shaped camps the scorers load from shaped_camps.json: those of the
\* last shaping run.
ShapedCamps == shape_runs[Len(shape_runs)].value

\* compute_all_features(camps) of generate_features.py.
RunComputeAllFeatures ==
    /\ stage = "shaped"
    /\ \E run \in {ComputeAllFeatures(ShapedCamps, feature_axes)} :
           /\ all_scores' = run.value
           /\ stage' = IF run.pc = "raised" THEN "scoring_raised" ELSE "scored"
    /\ UNCHANGED <<data_files, percentiles, roster, history, shape_runs, feature_axes,
                   features_data, personality_features>>
    /\ UNCHANGED <<ranker_vars, threads>>

\* The rest of main of generate_features.py: print_axis_statistics and the
\* feature records.
BuildFeatureRecords ==
    /\ stage = "scored"
    /\ \E run \in {FeatureRecords(ShapedCamps, all_scores, feature_axes)} :
           /\ features_data' = run.value
           /\ stage' = IF run.pc = "raised" THEN "features_raised" ELSE "features_saved"
    /\ UNCHANGED <<data_files, percentiles, roster, history, shape_runs, feature_axes,
                   all_scores, personality_features>>
    /\ UNCHANGED <<ranker_vars, threads>>

\* main of generate_personality_features.py.
GeneratePersonalityFeatures ==
    /\ stage = "shaped"
    /\ personality_features' = PersonalityMain(ShapedCamps, PERSONALITY_AXES)
    /\ stage' = "personality_saved"
    /\ UNCHANGED <<data_files, percentiles, roster, history, shape_runs, feature_axes,
                   all_scores, features_data>>
    /\ UNCHANGED <<ranker_vars, threads>>

NextPipeline ==
    \/ RunShapeAllCamps
    \/ RunComputeAllFeatures
    \/ BuildFeatureRecords
    \/ GeneratePersonalityFeatures

SpecPipeline == InitPipeline /\ [][NextPipeline]_vars

(***************************************************************************)
(* Claims about the Shaper.                                                *)
(***************************************************************************)
\* The shaped records of every run so far, as <<run, position>> pairs.
ShapedPositions ==
    {p \in (1..MaxRuns) \X (1..MaxRoster) :
        p[1] <= Len(shape_runs) /\ p[2] <= Len(shape_runs[p[1]].value)}

ShapedAt(p) == shape_runs[p[1]].value[p[2]]

\* The non-empty strings of a list, in order.
NonEmptyParts(parts) == SelectSeq(parts, LAMBDA t : t # <<>>)

\* C16: the text_corpus of every shaped record is the single-space join of
\* latest_description, latest_description again, all_descriptions and
\* event_text, in this order, with the empty ones left out.
C16_CorpusAssemblyOrder ==
    \A p \in ShapedPositions :
        LET record == ShapedAt(p)
        IN  record.text_corpus =
                StrJoin(<<" ">>, NonEmptyParts(<<record.latest_description,
                                                 record.latest_description,
                                                 record.all_descriptions,
                                                 record.event_text>>))

\* Camp Full was shaped: its corpus has the description twice, the tagged
\* description and the event text.
C16_Witness ==
    \E p \in ShapedPositions :
        /\ ShapedAt(p).name = "Full"
        /\ ShapedAt(p).latest_description = Str("Coffee bar, house music")
        /\ ShapedAt(p).event_text = Str("Brunch")
        /\ ShapedAt(p).text_corpus =
              Str("Coffee bar, house music Coffee bar, house music [2024] Coffee bar, house music Brunch")

\* The history records of a roster camp, as the files hold them.
RecordsOf(camp) == HistoryRecords(camp, data_files.campHistory)

\* The camp has a description in some year: a non-null, non-empty string.
HasDescriptionInAnyYear(camp) ==
    \E k \in 1..Len(RecordsOf(camp)) :
        DictGet(RecordsOf(camp)[k], "description", None) \notin {None, Some(<<>>)}

\* The camp has an event in some year.
HasEventInAnyYear(camp) ==
    \E k \in 1..Len(RecordsOf(camp)) :
        DictGet(RecordsOf(camp)[k], "events", None) \notin {None, Some(<<>>)}

\* C17: every run of the Shaper yields a record for every camp of the
\* roster, and the record's text_corpus is empty exactly when the camp has
\* neither a description nor an event in any year.
C17_EmptyCorpusIffNoText ==
    \A r \in 1..Len(shape_runs) :
        /\ Len(shape_runs[r].value) = Len(data_files.camps)
        /\ \A i \in 1..Len(shape_runs[r].value) :
              (shape_runs[r].value[i].text_corpus = <<>>)
              <=> ~(HasDescriptionInAnyYear(data_files.camps[i])
                    \/ HasEventInAnyYear(data_files.camps[i]))

\* C18: every run of shape_all_camps completes and returns one record per
\* roster record, in roster order; where the optional data is missing or
\* null the fields are the empty string, zero or the empty list.
C18_NoCampExcluded ==
    \A r \in 1..Len(shape_runs) :
        /\ shape_runs[r].pc = "returned"
        /\ Len(shape_runs[r].value) = Len(data_files.camps)
        /\ \A i \in 1..Len(shape_runs[r].value) :
              LET record == shape_runs[r].value[i]
                  camp == data_files.camps[i]
              IN  /\ record.name = camp.name
                  /\ DictGet(camp, "hometown", None) = None => record.hometown = <<>>
                  /\ RecordsOf(camp) = <<>> =>
                        /\ record.text_corpus = <<>>
                        /\ record.event_count = 0
                        /\ record.years_active.years = <<>>
                  /\ ~HasEventInAnyYear(camp) =>
                        record.event_text = <<>> /\ record.event_count = 0
                  /\ ~HasDescriptionInAnyYear(camp) => record.latest_description = <<>>

Scored == stage \in {"scored", "features_saved", "features_raised"}

\* The keys of the axis definitions.
AxisKeys(axes) == {axes[k][1] : k \in 1..Len(axes)}

\* x is a number from 0 to 100.
InScoreRange(x) == RLeq(FromInt(0), x) /\ RLeq(x, FromInt(100))

\* C12: after normalization every camp has, on every axis, a
\* normalized_score from 0 to 100, in the feature scorer and in the
\* personality scorer alike.
C12_NormalizedScoreBounds ==
    /\ Scored =>
          \A i \in 1..Len(all_scores), key \in AxisKeys(feature_axes) :
              /\ "normalized_score" \in DOMAIN all_scores[i].axes[key]
              /\ InScoreRange(all_scores[i].axes[key].normalized_score)
    /\ stage = "personality_saved" =>
          \A key \in AxisKeys(PERSONALITY_AXES) :
              \A i \in 1..Len(personality_features.normalized_scores[key]) :
                  InScoreRange(personality_features.normalized_scores[key][i])

\* No camp has a non-zero density on the axis.
NoSignal(key) == NonZeroDensities(all_scores, key) = <<>>

\* C13: when no camp has a non-zero density on an axis, every camp has the
\* normalized_score 0 on it after compute_all_features, and the feature
\* records are then built without an error.
C13_AllZeroAxis ==
    \A key \in AxisKeys(feature_axes) :
        (Scored /\ NoSignal(key)) =>
            /\ \A i \in 1..Len(all_scores) :
                  /\ "normalized_score" \in DOMAIN all_scores[i].axes[key]
                  /\ all_scores[i].axes[key].normalized_score = FromInt(0)
            /\ stage # "features_raised"

\* The raw signals of the personality scorer on an axis.
RawSignals(key) == personality_features.raw_scores[key]

\* C14: when the 95th percentile of an axis equals its median, every camp
\* whose raw signal is at least the median has the normalized score 100, the
\* camps below the median have the below-median scale, and no score is the
\* nan of a division by zero, in the feature scorer (signal: density, over
\* the non-zero densities) and in the personality scorer (signal: keyword
\* count, over all camps; a camp without any match is left aside there, as
\* it is in the feature scorer).
C14_DegenerateNormalization ==
    /\ Scored =>
          \A key \in AxisKeys(feature_axes) :
              LET densities == NonZeroDensities(all_scores, key)
                  p50 == NpPercentile(densities, 50)
              IN  (densities # <<>> /\ NpPercentile(densities, 95) = p50) =>
                      \A i \in 1..Len(all_scores) :
                          LET entry == all_scores[i].axes[key]
                          IN  /\ ~IsNaN(entry.normalized_score)
                              /\ RGeq(entry.density, p50) =>
                                    entry.normalized_score = FromInt(100)
                              /\ RLess(entry.density, p50) =>
                                    entry.normalized_score =
                                        Round1(RMul(RDiv(entry.density, p50), FromInt(50)))
    /\ stage = "personality_saved" =>
          \A key \in AxisKeys(PERSONALITY_AXES) :
              LET p0 == SortedAscending(RawSignals(key))[1]
                  p50 == NpPercentile(RawSignals(key), 50)
              IN  NpPercentile(RawSignals(key), 95) = p50 =>
                      \A i \in 1..Len(RawSignals(key)) :
                          LET norm == personality_features.normalized_scores[key][i]
                          IN  /\ ~IsNaN(norm)
                              /\ (RGeq(RawSignals(key)[i], p50)
                                  /\ RLess(FromInt(0), RawSignals(key)[i])) =>
                                    norm = FromInt(100)
                              /\ RLess(RawSignals(key)[i], p50) =>
                                    norm = RDiv(RMul(FromInt(50),
                                                     RSub(RawSignals(key)[i], p0)),
                                                RSub(p50, p0))

\* The worked scenario has been scored: camps A and B, shaped from their
\* history, on the axes early_bird and night_owl.
ScenarioScored ==
    /\ Scored
    /\ feature_axes = ScenarioAxes
    /\ Len(data_files.camps) = 2
    /\ data_files.camps[1].name = "A"
    /\ data_files.camps[2].name = "B"

\* The cross-axis entries and B's night_owl in the scenario, and the scores.
ScenarioRest ==
    /\ all_scores[1].axes["night_owl"].raw_count = 0
    /\ all_scores[2].axes["early_bird"].raw_count = 0
    /\ all_scores[2].axes["night_owl"].raw_count = 10
    /\ all_scores[1].axes["early_bird"].normalized_score = FromInt(100)
    /\ all_scores[2].axes["night_owl"].normalized_score = FromInt(100)
    /\ all_scores[1].axes["night_owl"].normalized_score = FromInt(0)
    /\ all_scores[2].axes["early_bird"].normalized_score = FromInt(0)

\* C15 as stated: in the scenario A's early_bird raw_count is 2 and its
\* night_owl raw_count 0, B's are 0 and 10; after normalization A's
\* early_bird and B's night_owl are 100 and the cross-axis scores 0.
C15_ScenarioAsStated ==
    ScenarioScored => (all_scores[1].axes["early_bird"].raw_count = 2 /\ ScenarioRest)

\* C15, amended: A's early_bird raw_count is 6, sunrise and coffee being
\* counted three times each because the corpus holds A's description twice
\* as latest_description and once more in all_descriptions; the rest is as
\* stated.
C15_ScenarioCounts ==
    ScenarioScored => (all_scores[1].axes["early_bird"].raw_count = 6 /\ ScenarioRest)

\* The scenario has been scored from A's 78-character corpus.
C15_Witness ==
    /\ ScenarioScored
    /\ ShapedCamps[1].text_corpus =
          Str("sunrise yoga and coffee sunrise yoga and coffee [2024] sunrise yoga and coffee")
    /\ all_scores[1].axes["early_bird"].density = Rat(6000, 78)
    /\ all_scores[2].axes["night_owl"].density = Rat(10000, 99)

\* The axis definition has no keyword: the list is empty or missing.
NoKeywords(definition) ==
    "keywords" \notin DOMAIN definition \/ definition.keywords = <<>>

\* C20: with an axis definition whose keyword list is empty or missing, the
\* scorer is stopped where the definitions are loaded: compute_all_features
\* is never entered, so neither pass runs and no camp is scored.
C20_EmptyKeywordListRejected ==
    (\E k \in 1..Len(feature_axes) : NoKeywords(feature_axes[k][2])) =>
        stage \in {"loaded", "shaped", "shape_raised", "personality_saved"}

(***************************************************************************)
(* Concurrent rank() calls.  quiz_app.py builds one CampRanker at import   *)
(* and every /api/rank request calls ranker.rank(profile, top_k=50) on it; *)
(* the server handles requests on threads.  What the calls share is        *)
(* self.camps, self.embeddings (the embedding column of the rows here) and *)
(* self.model.  A thread's steps are cut where it reads or writes one of   *)
(* them: the test and the assignment of _load_model, encode, and the       *)
(* scoring and result building over the store.                             *)
(***************************************************************************)
MaxThreads == 2

Threads == 1..MaxThreads

\* The payloads of the requests in flight.
ThreadProfiles ==
    { UserProfile(None, Some(Oakland), << <<"music_jazz_blues", Some(50)>> >>),
      UserProfile(Some("breathwork"), None, << <<"sober", Some(90)>> >>),
      UserProfile(Some("breathwork"), Some(Oakland), <<>>) }

IdleThread ==
    [pc |-> "idle", profile |-> <<>>, user_embedding |-> None, ranked_indices |-> <<>>,
     results |-> <<>>]

InitThreads ==
    /\ camps \in Stores
    /\ model = "None"
    /\ pc = "idle"
    /\ request = <<>>
    /\ call = <<>>
    /\ ranked_indices = <<>>
    /\ results = <<>>
    /\ PipelineOff
    /\ threads = [t \in Threads |-> IdleThread]

\* Mutant: rank leaves self.camps in ranked order.
CampsAfterRankMutSortInPlace(store, ranked) == [k \in 1..Len(store) |-> store[ranked[k]]]

\* self.camps (with the embedding column) after a rank call: no statement of
\* rank or of the methods it calls assigns to self.camps or self.embeddings
\* or into one of their rows; results hold camp['axes'] by reference and
\* rank does not write through it.
CampsAfterRank(store, ranked) == store

\* rank(profile, top_k=50) is entered: _compute_embedding_similarity tests
\* the description.
ThreadRank(t) ==
    /\ threads[t].pc = "idle"
    /\ \E profile \in ThreadProfiles :
          threads' = [threads EXCEPT ![t] =
              [IdleThread EXCEPT !.profile = profile,
                                 !.pc = IF profile.description = None
                                        THEN "scores" ELSE "load_model"]]
    /\ UNCHANGED <<ranker_vars, pipeline_vars>>

\* _load_model: the test self.model is None.
ThreadLoadModelTest(t) ==
    /\ threads[t].pc = "load_model"
    /\ threads' = [threads EXCEPT ![t].pc = IF model = "None" THEN "import" ELSE "encode"]
    /\ UNCHANGED <<ranker_vars, pipeline_vars>>

\* _load_model: self.model = SentenceTransformer(...), by every thread that
\* found it None.
ThreadLoadModelAssign(t) ==
    /\ threads[t].pc = "import"
    /\ model' = "SentenceTransformer"
    /\ threads' = [threads EXCEPT ![t].pc = "encode"]
    /\ UNCHANGED <<camps, pc, request, call, ranked_indices, results>>
    /\ UNCHANGED pipeline_vars

\* self.model.encode returns the query embedding.
ThreadEncode(t) ==
    /\ threads[t].pc = "encode"
    /\ \E e \in EncodeOutcomes :
          threads' = [threads EXCEPT ![t].user_embedding = Some(e), ![t].pc = "scores"]
    /\ UNCHANGED <<ranker_vars, pipeline_vars>>

\* The constructor of the model or encode raises: the exception leaves rank.
ThreadEmbedderRaises(t) ==
    /\ threads[t].pc \in {"import", "encode"}
    /\ threads' = [threads EXCEPT ![t].pc = "raised"]
    /\ UNCHANGED <<ranker_vars, pipeline_vars>>

\* The rest of rank: the three score arrays over self.camps, the sort and
\* the results.
ThreadScores(t) ==
    /\ threads[t].pc = "scores"
    /\ \E p \in NpArgsort(FinalScores(camps, threads[t].profile, threads[t].user_embedding,
                                      DefaultWeights)) :
          /\ threads' = [threads EXCEPT
                ![t].ranked_indices = RankedIndices(p),
                ![t].results = BuildResults(camps, threads[t].profile,
                                            threads[t].user_embedding, DefaultWeights,
                                            DefaultTopK, RankedIndices(p)),
                ![t].pc = "returned"]
          /\ camps' = CampsAfterRank(camps, RankedIndices(p))
    /\ UNCHANGED <<model, pc, request, call, ranked_indices, results>>
    /\ UNCHANGED pipeline_vars

\* The route has sent the response (or the error).
ThreadReturn(t) ==
    /\ threads[t].pc \in {"returned", "raised"}
    /\ threads' = [threads EXCEPT ![t] = IdleThread]
    /\ UNCHANGED <<ranker_vars, pipeline_vars>>

NextThreads ==
    \E t \in Threads :
        \/ ThreadRank(t)
        \/ ThreadLoadModelTest(t)
        \/ ThreadLoadModelAssign(t)
        \/ ThreadEncode(t)
        \/ ThreadEmbedderRaises(t)
        \/ ThreadScores(t)
        \/ ThreadReturn(t)

SpecThreads == InitThreads /\ [][NextThreads]_vars

\* What rank returns for thread t's request when it runs alone on the store:
\* the results of one outcome of the sort, for the embedding encode gave.
ReturnsAsAlone(t) ==
    \E q \in NpArgsort(FinalScores(camps, threads[t].profile, threads[t].user_embedding,
                                   DefaultWeights)) :
        /\ threads[t].ranked_indices = RankedIndices(q)
        /\ threads[t].results =
              BuildResults(camps, threads[t].profile, threads[t].user_embedding,
                           DefaultWeights, DefaultTopK, RankedIndices(q))

InitTwoPass ==
    /\ camps = <<>>
    /\ model = "None"
    /\ pc = "idle"
    /\ request = <<>>
    /\ call = <<>>
    /\ ranked_indices = <<>>
    /\ results = <<>>
    /\ threads = <<>>
    /\ \E r \in Rosters :
          /\ ShapeAllCamps(r, CampHistory).pc = "returned"
          /\ data_files = [camps |-> r, campHistory |-> CampHistory]
          /\ roster = r
          /\ shape_runs = <<ShapeAllCamps(r, CampHistory)>>
    /\ history = CampHistory
    /\ feature_axes \in AxisConfigs
    /\ all_scores = <<>>
    /\ percentiles = <<>>
    /\ features_data = <<>>
    /\ personality_features = <<>>
    /\ stage = "shaped"

\* Mutant: an axis is normalized as soon as one camp has its raw scores.
SecondLoopReachedMutOnePass(scores, camps_list) == Len(scores) >= 1

\* The second loop is reached when the first loop has run for every camp.
SecondLoopReached(scores, camps_list) == Len(scores) = Len(camps_list)

\* One iteration of the first loop: camp_scores of the next camp, appended;
\* compute_axis_score raises KeyError for an axis without keywords.
FirstPassCamp ==
    /\ stage = "shaped"
    /\ Len(all_scores) < Len(ShapedCamps)
    /\ percentiles' = percentiles
    /\ IF \E k \in 1..Len(feature_axes) : "keywords" \notin DOMAIN feature_axes[k][2]
       THEN /\ stage' = "scoring_raised"
            /\ all_scores' = all_scores
       ELSE /\ stage' = stage
            /\ all_scores' =
                  all_scores
                  \o RawScores(<<ShapedCamps[Len(all_scores) + 1]>>, feature_axes)
    /\ UNCHANGED <<data_files, roster, history, shape_runs, feature_axes, features_data,
                   personality_features>>
    /\ UNCHANGED <<ranker_vars, threads>>

\* One iteration of the second loop: normalize_axis_scores for the next
\* axis; after the last axis compute_all_features returns.
NormalizeAxis ==
    /\ stage = "shaped"
    /\ SecondLoopReached(all_scores, ShapedCamps)
    /\ Len(percentiles) < Len(feature_axes)
    /\ \E axis_key \in {feature_axes[Len(percentiles) + 1][1]} :
       \E densities \in {NonZeroDensities(all_scores, axis_key)} :
          /\ all_scores' = NormalizeAxisScores(all_scores, axis_key)
          /\ percentiles' =
                Append(percentiles,
                       IF densities = <<>>
                       THEN [axis_key |-> axis_key, densities |-> densities,
                             p50 |-> None, p95 |-> None]
                       ELSE [axis_key |-> axis_key, densities |-> densities,
                             p50 |-> Some(NpPercentile(densities, 50)),
                             p95 |-> Some(NpPercentile(densities, 95))])
    /\ stage' = IF Len(percentiles) + 1 = Len(feature_axes)
                   /\ Len(all_scores) = Len(ShapedCamps)
                THEN "scored" ELSE stage
    /\ UNCHANGED <<data_files, roster, history, shape_runs, feature_axes, features_data,
                   personality_features>>
    /\ UNCHANGED <<ranker_vars, threads>>

NextTwoPass == FirstPassCamp \/ NormalizeAxis

SpecTwoPass == InitTwoPass /\ [][NextTwoPass]_vars

\* The raw scores of the whole population: every shaped camp, every axis.
PopulationScores == RawScores(ShapedCamps, feature_axes)

\* The densities of all camps on an axis, zero or not, in camp order.
PopulationDensities(axis_key) ==
    [i \in 1..Len(ShapedCamps) |-> PopulationScores[i].axes[axis_key].density]

\* Some entry of all_scores has a normalized_score.
SomeNormalizedScore ==
    \E i \in 1..Len(all_scores) :
        \E key \in DOMAIN all_scores[i].axes :
            "normalized_score" \in DOMAIN all_scores[i].axes[key]

\* Every camp has its raw_count and density for every axis.
FirstPassComplete ==
    /\ Len(all_scores) = Len(ShapedCamps)
    /\ \A i \in 1..Len(all_scores) :
          /\ DOMAIN all_scores[i].axes = AxisKeys(feature_axes)
          /\ \A key \in AxisKeys(feature_axes) :
                {"raw_count", "density"} \subseteq DOMAIN all_scores[i].axes[key]

\* C22 as stated: no percentile and no normalized score exists before every
\* camp has its raw count and density for every axis, and the p50 and p95 of
\* every axis are the percentiles of the densities of all camps.
C22_TwoPassAsStated ==
    /\ (percentiles # <<>> \/ SomeNormalizedScore) => FirstPassComplete
    /\ \A k \in 1..Len(percentiles) :
          percentiles[k].p50 # None =>
              /\ percentiles[k].p50 =
                    Some(NpPercentile(PopulationDensities(percentiles[k].axis_key), 50))
              /\ percentiles[k].p95 =
                    Some(NpPercentile(PopulationDensities(percentiles[k].axis_key), 95))

\* C22: no percentile is computed before every camp has its raw count and
\* density for every axis; the only normalized_score that exists before that
\* is the constant 0 of a camp with an empty text_corpus; and the p50 and p95
\* of every axis are the percentiles of the non-zero densities of all camps,
\* never of a part of the population.
C22_TwoPassOrdering ==
    /\ percentiles # <<>> => FirstPassComplete
    /\ ~FirstPassComplete =>
          \A i \in 1..Len(all_scores) :
              \A key \in DOMAIN all_scores[i].axes :
                  "normalized_score" \in DOMAIN all_scores[i].axes[key] =>
                      /\ ShapedCamps[i].text_corpus = <<>>
                      /\ all_scores[i].axes[key].normalized_score = FromInt(0)
    /\ \A k \in 1..Len(percentiles) :
          /\ percentiles[k].densities =
                SelectSeq(PopulationDensities(percentiles[k].axis_key),
                          LAMBDA d : RLess(FromInt(0), d))
          /\ percentiles[k].p50 # None =>
                /\ percentiles[k].p50 = Some(NpPercentile(percentiles[k].densities, 50))
                /\ percentiles[k].p95 = Some(NpPercentile(percentiles[k].densities, 95))

\* Both axes of the scenario are normalized over camps A and B, each axis
\* with one non-zero density.
C22_Witness ==
    /\ stage = "scored"
    /\ Len(ShapedCamps) = 2
    /\ Len(percentiles) = 2
    /\ \A k \in 1..2 : Len(percentiles[k].densities) = 1 /\ percentiles[k].p50 # None

(***************************************************************************)
(* The rankers over every kind of row: a store of one camp whose scores    *)
(* lie at and around the thresholds of the explanation labels, ranked by   *)
(* CampRanker (rank_camps.py), PersonalityCampRanker                       *)
(* (rank_camps_personality.py) and PCACampRanker (rank_camps_pca.py).      *)
(* The alternate rankers read the same kind of row from their own feature  *)
(* files: the personality store has the scores under 'axes', the PCA store *)
(* under 'pca_personality'; a row here carries both.                       *)
(***************************************************************************)
RowScores == {0, 20, 21, 39, 40, 69, 70, 100}

RowStores ==
    { << [name |-> "Alpha", uid |-> 1, hometown |-> h, embedding |-> <<1, 0>>,
          axes |-> [k \in {"music_jazz_blues", "sober"} |->
                       IF k = "music_jazz_blues" THEN jazz ELSE sober],
          pca_personality |-> [k \in {"music_jazz_blues", "sober"} |->
                                  IF k = "music_jazz_blues" THEN jazz ELSE sober],
          event_count |-> events, years_active |-> years] >> :
        h \in {OaklandLower, Berkeley}, jazz \in RowScores, sober \in {10, 80},
        events \in {49, 50}, years \in {4, 5} }

\* Keyword arguments of a profile: preferences at a distance of 20 and of 21
\* from the row scores, a None, and a key no row has.
RowAxisArguments ==
    { j \o s \o u :
        j \in { <<>>, << <<"music_jazz_blues", None>> >> }
              \cup { << <<"music_jazz_blues", Some(v)>> >> : v \in {0, 19, 41, 50, 60, 90, 100} },
        s \in SoberOptions, u \in PartyOptions }

\* The profiles CampRanker.rank is called with: hometown and axis preferences.
RowProfiles == { UserProfile(None, h, a) : h \in Hometowns, a \in RowAxisArguments }

InitRows ==
    /\ camps \in RowStores
    /\ model = "None"
    /\ pc = "idle"
    /\ request = <<>>
    /\ call = <<>>
    /\ ranked_indices = <<>>
    /\ results = <<>>
    /\ PipelineOff
    /\ threads = <<>>

\* CampRanker.rank(profile, top_k=50, ...) with either choice of weights.
RankRows ==
    \E profile \in RowProfiles, w \in WeightChoices :
        RankCall(<<>>, profile, DefaultTopK, w)

\* Mutant: the personality match uses the one-sided match of CampRanker.
ComputePersonalityMatchMutAsymmetric(store, traits) ==
    LET user_traits == SelectSeq(traits, LAMBDA p : p[2] # None)
        Matches(camp) ==
            LET present == SelectSeq(user_traits, LAMBDA p : p[1] \in DOMAIN camp.axes)
            IN  [i \in 1..Len(present) |->
                    AxisMatch(camp.axes[present[i][1]], present[i][2][1])]
    IN  IF user_traits = <<>>
        THEN [i \in 1..Len(store) |-> FromInt(50)]
        ELSE [i \in 1..Len(store) |->
                 IF Matches(store[i]) # <<>> THEN NpMean(Matches(store[i]))
                 ELSE FromInt(50)]

\* PersonalityCampRanker._compute_personality_match.
ComputePersonalityMatch(store, traits) ==
    LET user_traits == SelectSeq(traits, LAMBDA p : p[2] # None)
        Matches(camp) ==
            LET present == SelectSeq(user_traits, LAMBDA p : p[1] \in DOMAIN camp.axes)
            IN  [i \in 1..Len(present) |->
                    100 - Abs(present[i][2][1] - camp.axes[present[i][1]])]
    IN  IF user_traits = <<>>
        THEN [i \in 1..Len(store) |-> FromInt(50)]
        ELSE [i \in 1..Len(store) |->
                 IF Matches(store[i]) # <<>> THEN NpMean(Matches(store[i]))
                 ELSE FromInt(50)]

\* PCACampRanker._compute_pca_match.
ComputePcaMatch(store, components) ==
    LET user_components == SelectSeq(components, LAMBDA p : p[2] # None)
        Matches(camp) ==
            LET present == SelectSeq(user_components,
                                     LAMBDA p : p[1] \in DOMAIN camp.pca_personality)
            IN  [i \in 1..Len(present) |->
                    100 - Abs(present[i][2][1] - camp.pca_personality[present[i][1]])]
    IN  IF user_components = <<>>
        THEN [i \in 1..Len(store) |-> FromInt(50)]
        ELSE [i \in 1..Len(store) |->
                 IF Matches(store[i]) # <<>> THEN NpMean(Matches(store[i]))
                 ELSE FromInt(50)]

\* PersonalityCampRanker.rank(PersonalityProfile(**traits)), top_k = 50; the
\* explanation string of a result is left out.
PersonalityRank ==
    /\ pc = "idle"
    /\ \E traits \in RowAxisArguments :
       \E personality_scores \in {ComputePersonalityMatch(camps, traits)} :
       \E p \in NpArgsort(personality_scores) :
          /\ call' = [ranker |-> "PersonalityCampRanker", profile |-> [traits |-> traits],
                      top_k |-> DefaultTopK]
          /\ ranked_indices' = RankedIndices(p)
          /\ results' =
                [k \in 1..Len(SliceTo(RankedIndices(p), DefaultTopK)) |->
                    [rank |-> k,
                     name |-> camps[RankedIndices(p)[k]].name,
                     uid |-> camps[RankedIndices(p)[k]].uid,
                     hometown |-> camps[RankedIndices(p)[k]].hometown,
                     score |-> personality_scores[RankedIndices(p)[k]],
                     personality_match |-> personality_scores[RankedIndices(p)[k]],
                     axes |-> camps[RankedIndices(p)[k]].axes,
                     event_count |-> camps[RankedIndices(p)[k]].event_count,
                     years_active |-> camps[RankedIndices(p)[k]].years_active]]
    /\ pc' = "returned"
    /\ UNCHANGED <<camps, model, request>>
    /\ UNCHANGED <<pipeline_vars, threads>>

\* PCACampRanker.rank(PCAPersonalityProfile(**components)), top_k = 50; the
\* explanation string of a result is left out.
PcaRank ==
    /\ pc = "idle"
    /\ \E components \in RowAxisArguments :
       \E personality_scores \in {ComputePcaMatch(camps, components)} :
       \E p \in NpArgsort(personality_scores) :
          /\ call' = [ranker |-> "PCACampRanker", profile |-> [components |-> components],
                      top_k |-> DefaultTopK]
          /\ ranked_indices' = RankedIndices(p)
          /\ results' =
                [k \in 1..Len(SliceTo(RankedIndices(p), DefaultTopK)) |->
                    [rank |-> k,
                     name |-> camps[RankedIndices(p)[k]].name,
                     uid |-> camps[RankedIndices(p)[k]].uid,
                     hometown |-> camps[RankedIndices(p)[k]].hometown,
                     score |-> personality_scores[RankedIndices(p)[k]],
                     pca_match |-> personality_scores[RankedIndices(p)[k]],
                     pca_personality |-> camps[RankedIndices(p)[k]].pca_personality,
                     event_count |-> camps[RankedIndices(p)[k]].event_count,
                     years_active |-> camps[RankedIndices(p)[k]].years_active]]
    /\ pc' = "returned"
    /\ UNCHANGED <<camps, model, request>>
    /\ UNCHANGED <<pipeline_vars, threads>>

NextRows == RankRows \/ PersonalityRank \/ PcaRank \/ Return

SpecRows == InitRows /\ [][NextRows]_vars

(***************************************************************************)
(* Properties of the explanations of CampRanker.rank.                      *)
(***************************************************************************)
\* A call of CampRanker.rank has returned.
CampRankerReturned == Returned /\ "weights" \in DOMAIN call

\* The note is one of the notes of result k's explanation.
InExplanation(k, note) ==
    \E j \in 1..Len(results[k].explanation) : results[k].explanation[j] = note

\* The label the thresholds give, "" for none.
StatedLabel(user_pref, camp_score) ==
    IF Abs(user_pref - camp_score) > 20 THEN ""
    ELSE IF camp_score >= 70 THEN "High"
    ELSE IF camp_score >= 40 /\ camp_score < 70 THEN "Medium"
    ELSE IF camp_score <= 20 THEN "Low"
    ELSE ""

\* C23: for each axis the user set that exists on the camp, the explanation
\* has the note 'High <axis>', 'Medium <axis>' or 'Low <axis>' exactly when
\* |user_pref - camp_score| <= 20 and camp_score is >= 70, in [40, 70) or
\* <= 20 respectively; a camp score strictly between 20 and 40, or an axis
\* more than 20 points from the preference, gives no label.
C23_ExplanationLabels ==
    CampRankerReturned =>
        \A k \in 1..Len(results) :
            \A i \in 1..Len(call.profile.axes) :
                LET axis_key == call.profile.axes[i][1]
                    user_pref == call.profile.axes[i][2]
                IN  (user_pref # None /\ axis_key \in DOMAIN results[k].axes) =>
                        \A label \in {"High", "Medium", "Low"} :
                            InExplanation(k, Note(label, ReadableNameLower(axis_key),
                                                   <<>>, 0))
                            <=> StatedLabel(user_pref[1], results[k].axes[axis_key]) = label

\* A camp at 39 with a preference of 41 gets no label for the axis, while
\* its sober score of 80 against 90 is labelled High.
C23_Witness ==
    /\ CampRankerReturned
    /\ call.profile.axes = << <<"music_jazz_blues", Some(41)>>, <<"sober", Some(90)>> >>
    /\ results[1].axes["music_jazz_blues"] = 39
    /\ results[1].axes["sober"] = 80
    /\ InExplanation(1, Note("High", "sober", <<>>, 0))
    /\ \A label \in {"High", "Medium", "Low"} :
          ~InExplanation(1, Note(label, "jazz/blues", <<>>, 0))

\* The label notes the thresholds give result k, in the order the profile
\* lists its axes.
StatedLabelNotes(k) ==
    LET axes == call.profile.axes
        Labelled(i) ==
            /\ axes[i][2] # None
            /\ axes[i][1] \in DOMAIN results[k].axes
            /\ StatedLabel(axes[i][2][1], results[k].axes[axes[i][1]]) # ""
        kept == SelectSeq([i \in 1..Len(axes) |-> i], Labelled)
    IN  [j \in 1..Len(kept) |->
            Note(StatedLabel(axes[kept[j]][2][1], results[k].axes[axes[kept[j]][1]]),
                 ReadableNameLower(axes[kept[j]][1]), <<>>, 0)]

\* The notes that qualify for result k: axis labels, then the geographic
\* note, the tenure note and the activity note.
QualifyingNotes(k) ==
    StatedLabelNotes(k)
    \o (IF RLess(FromInt(0), results[k].component_scores.geographic_bonus)
        THEN <<Note("From", "", results[k].hometown, 0)>> ELSE <<>>)
    \o (IF results[k].years_active >= 5
        THEN <<Note("years on playa", "", <<>>, results[k].years_active)>> ELSE <<>>)
    \o (IF results[k].event_count >= 50
        THEN <<Note("events", "", <<>>, results[k].event_count)>> ELSE <<>>)

\* C24: every explanation holds between 1 and 4 notes; they are the first 4
\* of the qualifying notes in the order axis labels, geographic note (bonus
\* > 0), tenure note (years_active >= 5), activity note (event_count >= 50);
\* and the explanation is the fallback phrase exactly when no note qualifies.
C24_ExplanationNotes ==
    CampRankerReturned =>
        \A k \in 1..Len(results) :
            /\ Len(results[k].explanation) \in 1..4
            /\ QualifyingNotes(k) # <<>> =>
                  /\ Len(results[k].explanation) =
                        (IF Len(QualifyingNotes(k)) < 4 THEN Len(QualifyingNotes(k)) ELSE 4)
                  /\ \A j \in 1..Len(results[k].explanation) :
                        results[k].explanation[j] = QualifyingNotes(k)[j]
            /\ (results[k].explanation = <<Note("Good overall match", "", <<>>, 0)>>)
                  <=> QualifyingNotes(k) = <<>>

\* Five notes qualify (two labels, hometown, tenure, activity) and the
\* explanation keeps the first four: the activity note is dropped.
C24_Witness ==
    /\ CampRankerReturned
    /\ Len(QualifyingNotes(1)) = 5
    /\ Len(results[1].explanation) = 4
    /\ results[1].explanation[4] = Note("years on playa", "", <<>>, 5)
    /\ ~InExplanation(1, Note("events", "", <<>>, 50))

\* The number of whole-word, case-insensitive occurrences of the keywords in
\* the text: for every keyword the positions where it stands between word
\* boundaries.
WholeWordHits(text, keywords) ==
    Only({SumSeq([k \in 1..Len(keywords) |->
                    Cardinality({m \in 1..Len(text_lower) :
                                    KeywordMatchesAt(text_lower, StrLower(keywords[k]), m)})]) :
             text_lower \in {StrLower(text)}})

\* C25: the raw count of a camp on an axis is the sum over the axis's
\* keywords of their whole-word, case-insensitive occurrences in the camp's
\* text_corpus, in the feature scorer and in the personality scorer; a
\* keyword that is only part of a longer word contributes 0.
C25_WholeWordCounts ==
    /\ stage = "scored" =>
          \A i \in 1..Len(all_scores) : \A k \in 1..Len(feature_axes) :
              all_scores[i].axes[feature_axes[k][1]].raw_count =
                  WholeWordHits(ShapedCamps[i].text_corpus, feature_axes[k][2].keywords)
    /\ stage = "personality_saved" =>
          \A i \in 1..Len(ShapedCamps) : \A k \in 1..Len(PERSONALITY_AXES) :
              personality_features.raw_scores[PERSONALITY_AXES[k][1]][i] =
                  FromInt(WholeWordHits(ShapedCamps[i].text_corpus,
                                        PERSONALITY_AXES[k][2].keywords))

\* The years of a set, greatest first.
RECURSIVE DescendingYears(_)
DescendingYears(years) ==
    IF years = {} THEN <<>>
    ELSE LET latest == CHOOSE y \in years : \A z \in years : z <= y
         IN  <<latest>> \o DescendingYears(years \ {latest})

\* The cleaned description of the entry of the given year (years unique).
CleanedDescriptionOf(records, year) ==
    CleanText(DictGet(records[CHOOSE k \in 1..Len(records) : records[k].year = year],
                      "description", Some(<<>>)))

\* '[year] cleaned description' of the entry of the given year.
TaggedDescription(records, year) ==
    Str("[") \o IntToStr(year) \o Str("] ") \o CleanedDescriptionOf(records, year)

\* The orders in which the records can stand in the input.
InputOrders(records) ==
    {[k \in 1..Len(records) |-> records[f[k]]] : f \in Picks(Len(records), Len(records))}

\* The roster camps whose shaped record a returned run holds and whose
\* history has entries, all of different years.
ConsolidatedCamps(r) ==
    {i \in 1..Len(shape_runs[r].value) :
        /\ RecordsOf(data_files.camps[i]) # <<>>
        /\ \A j, k \in 1..Len(RecordsOf(data_files.camps[i])) :
              j # k => RecordsOf(data_files.camps[i])[j].year
                          # RecordsOf(data_files.camps[i])[k].year}

\* latest_description is the cleaned description of the entry of the
\* greatest year, and consolidation gives the same for every input order.
LatestAndOrderFree(r, i) ==
    LET records == RecordsOf(data_files.camps[i])
        descending == DescendingYears({records[k].year : k \in 1..Len(records)})
    IN  /\ shape_runs[r].value[i].latest_description =
              CleanedDescriptionOf(records, descending[1])
        /\ \A permuted \in InputOrders(records) :
              ConsolidateDescriptions(permuted) = ConsolidateDescriptions(records)

\* C26 as stated: all_descriptions joins '[year] cleaned description' of
\* every entry, in strictly descending year order.
C26_ConsolidationAsStated ==
    \A r \in 1..Len(shape_runs) : \A i \in ConsolidatedCamps(r) :
        LET records == RecordsOf(data_files.camps[i])
            descending == DescendingYears({records[k].year : k \in 1..Len(records)})
        IN  /\ LatestAndOrderFree(r, i)
            /\ shape_runs[r].value[i].all_descriptions =
                  StrJoin(Str(" "), [j \in 1..Len(descending) |->
                                        TaggedDescription(records, descending[j])])

\* C26, amended: history consolidation does not depend on the order of the
\* input entries (years unique); latest_description is the cleaned
\* description of the entry of the greatest year, and all_descriptions joins
\* with single spaces '[year] cleaned description' of the entries whose
\* cleaned description is not empty, in strictly descending year order.
C26_ConsolidationOrderFree ==
    \A r \in 1..Len(shape_runs) : \A i \in ConsolidatedCamps(r) :
        LET records == RecordsOf(data_files.camps[i])
            descending ==
                SelectSeq(DescendingYears({records[k].year : k \in 1..Len(records)}),
                          LAMBDA y : CleanedDescriptionOf(records, y) # <<>>)
        IN  /\ LatestAndOrderFree(r, i)
            /\ shape_runs[r].value[i].all_descriptions =
                  StrJoin(Str(" "), [j \in 1..Len(descending) |->
                                        TaggedDescription(records, descending[j])])

\* A run has consolidated the history that lists 2022, 2024, 2023 in this
\* order: the descriptions stand newest first.
C26_Witness ==
    \E r \in 1..Len(shape_runs) : \E i \in ConsolidatedCamps(r) :
        /\ shape_runs[r].value[i].name = "Mixed"
        /\ shape_runs[r].value[i].latest_description = Str("tea")
        /\ shape_runs[r].value[i].all_descriptions = Str("[2024] tea [2023] bar [2022] am camp")

\* An alternate ranker has returned.
AlternateRankerReturned == Returned /\ "ranker" \in DOMAIN call

\* The preferences the alternate ranker was called with, the stored scores
\* of result k and the match it reports.
AlternatePreferences ==
    IF call.ranker = "PCACampRanker" THEN call.profile.components ELSE call.profile.traits

AlternateCampScores(k) ==
    IF call.ranker = "PCACampRanker" THEN results[k].pca_personality ELSE results[k].axes

AlternateMatch(k) ==
    IF call.ranker = "PCACampRanker" THEN results[k].pca_match
    ELSE results[k].personality_match

\* The preferences that are set and whose axis result k has.
AlternateShared(k) ==
    SelectSeq(AlternatePreferences,
              LAMBDA p : p[2] # None /\ p[1] \in DOMAIN AlternateCampScores(k))

\* C27: in the alternate ranking modes a camp's match is the arithmetic mean,
\* over the axes present in both the profile and the camp, of
\* 100 - |user - camp|; it lies in [0, 100], it is 50 when the profile is
\* empty or shares no axis with the camp, and it is never an undefined number.
C27_SymmetricMatch ==
    AlternateRankerReturned =>
        \A k \in 1..Len(results) :
            LET shared == AlternateShared(k)
                distances == [i \in 1..Len(shared) |->
                                 Abs(shared[i][2][1] - AlternateCampScores(k)[shared[i][1]])]
            IN  /\ ~IsNaN(AlternateMatch(k))
                /\ RLeq(FromInt(0), AlternateMatch(k))
                /\ RLeq(AlternateMatch(k), FromInt(100))
                /\ shared = <<>> => AlternateMatch(k) = FromInt(50)
                /\ shared # <<>> =>
                      AlternateMatch(k) = Rat(100 * Len(shared) - SumSeq(distances), Len(shared))

\* PersonalityCampRanker has matched a camp on two shared axes, the user
\* below the camp on one and above it on the other.
C27_Witness ==
    /\ AlternateRankerReturned
    /\ call.ranker = "PersonalityCampRanker"
    /\ Len(AlternateShared(1)) = 2
    /\ \E i, j \in 1..2 :
          /\ AlternateShared(1)[i][2][1] < results[1].axes[AlternateShared(1)[i][1]]
          /\ AlternateShared(1)[j][2][1] > results[1].axes[AlternateShared(1)[j][1]]

\* The axes the filter test calls critical.
CriticalAxes == {"sober", "queer", "family"}

\* Result k satisfies the preference p = <<axis, Some(v)>>: the camp has the
\* axis and scores at least the preference on it.
SatisfiesPreference(k, p) ==
    /\ p[1] \in DOMAIN results[k].axes
    /\ results[k].axes[p[1]] >= p[2][1]

\* C28: when the profile sets a preference on sober, queer or family, the
\* list rank returns holds no camp that does not satisfy the preference.
C28_HardFiltering ==
    CampRankerReturned =>
        \A k \in 1..Len(results) : \A i \in 1..Len(call.profile.axes) :
            (call.profile.axes[i][1] \in CriticalAxes /\ call.profile.axes[i][2] # None)
                => SatisfiesPreference(k, call.profile.axes[i])

\* C29: a camp whose stored hometown is empty gets bonus 0 from every
\* non-empty profile hometown, a profile whose hometown is absent or the
\* empty string gets bonus 0 for every camp, and no explanation carries a
\* geographic note for an empty hometown.
C29_NoBonusForEmptyHometown ==
    CampRankerReturned =>
        \A k \in 1..Len(results) :
            /\ (call.profile.hometown \notin {None, Some(<<>>)} /\ results[k].hometown = <<>>)
                  => results[k].component_scores.geographic_bonus = FromInt(0)
            /\ call.profile.hometown \in {None, Some(<<>>)}
                  => results[k].component_scores.geographic_bonus = FromInt(0)
            /\ results[k].hometown = <<>> => ~InExplanation(k, Note("From", "", <<>>, 0))

\* Every preference the profile sets and every axis score of result k lies
\* in [0, 100].
InputsInRange(k) ==
    /\ \A i \in 1..Len(call.profile.axes) :
          call.profile.axes[i][2] # None => call.profile.axes[i][2][1] \in 0..100
    /\ \A key \in DOMAIN results[k].axes : results[k].axes[key] \in 0..100

\* C30: when every user preference and every camp axis score lies in
\* [0, 100], every per-axis match lies in [0, 110] and the camp's axis_match
\* lies in [0, 110].
C30_AxisMatchBounds ==
    CampRankerReturned =>
        \A k \in 1..Len(results) :
            InputsInRange(k) =>
                /\ \A i \in 1..Len(call.profile.axes) :
                      (call.profile.axes[i][2] # None
                          /\ call.profile.axes[i][1] \in DOMAIN results[k].axes)
                      => AxisMatch(results[k].axes[call.profile.axes[i][1]],
                                   call.profile.axes[i][2][1]) \in 0..110
                /\ ~IsNaN(results[k].component_scores.axis_match)
                /\ RLeq(FromInt(0), results[k].component_scores.axis_match)
                /\ RLeq(results[k].component_scores.axis_match, FromInt(110))

====
